---- MODULE Spec2Model ----
(***************************************************************************)
(* Retail-IA-Predictor: the feature pipeline (DataPreprocessor), the churn *)
(* model (ChurnPredictor) and the sales forecaster                         *)
(* (SalesTimeSeriesPredictor) as state machines.                           *)
(*                                                                         *)
(* The specifications of the module:                                       *)
(*   SpecFeatures    ChurnPredictor._create_features applied to bounded    *)
(*                   customer-feature tables;                              *)
(*   SpecPipeline    DataPreprocessor on bounded transaction tables;       *)
(*   Spec            the lifecycle (train / load_model / inference) of     *)
(*                   the two predictors over the files they read and       *)
(*                   write;                                                *)
(*   SpecServing     the churn page of the dashboard;                      *)
(*   SpecImportance  feature importances of trained and loaded models;     *)
(*   SpecConcurrent  train and load_model of two processes, step by step;  *)
(*   SpecOverlap     batch runs of the pipeline that may overlap.          *)
(*                                                                         *)
(* Conventions.  Python's None is the record None.  A float is a record    *)
(* [k, n, d]: an exact fraction n/d in lowest terms, or nan, or inf        *)
(* (floating-point rounding is not modelled).  A DataFrame is a record     *)
(* [cols, rows] with rows a sequence of records.  A raised exception is    *)
(* the "raised" field of what a handler returns ("none": it returned).     *)
(***************************************************************************)
EXTENDS Integers, Sequences, FiniteSets, TLC

VARIABLES
    cf_df,          \* SpecFeatures: the DataFrame handed to _create_features
    cf_out,         \* SpecFeatures: what _create_features returned (None before)
    pp,             \* SpecPipeline: the DataPreprocessor instance
    raw,            \* SpecPipeline: the three CSV files under data/raw
    processed,      \* SpecPipeline: the two CSV files under data/processed
    churn,          \* Spec: ChurnPredictor instances
    sales,          \* Spec: SalesTimeSeriesPredictor instances
    fs,             \* Spec: the data files and model artifacts on disk
    dumped,         \* Spec: history, the in-memory model each artifact was dumped from
    last,           \* Spec: the last call: who, what, how it ended, what it returned
    page,           \* SpecServing: what the last run of the churn page computed
    pc              \* SpecConcurrent, SpecOverlap: where each caller stands in its call

vars == <<cf_df, cf_out, pp, raw, processed, churn, sales, fs, dumped, last, page, pc>>

featureVars  == <<cf_df, cf_out>>
pipelineVars == <<pp, raw, processed>>
modelVars    == <<churn, sales, fs, dumped, last>>
servingVars  == <<page>>
progressVars == <<pc>>

None == [k |-> "None"]

(***************************************************************************)
(* Floats                                                                  *)
(***************************************************************************)
RECURSIVE GCD(_, _)
GCD(a, b) == IF b = 0 THEN a ELSE GCD(b, a % b)

Abs(x) == IF x < 0 THEN -x ELSE x

NaN  == [k |-> "nan", n |-> 0, d |-> 1]
Inf  == [k |-> "inf", n |-> 1, d |-> 1]
NInf == [k |-> "inf", n |-> -1, d |-> 1]

\* The float n/d, d > 0, in lowest terms.
Frac(n, d) ==
    LET g == GCD(Abs(n), d)
    IN  [k |-> "num", n |-> n \div g, d |-> d \div g]

Float(i) == Frac(i, 1)
Zero == Float(0)

\* pandas' Series / Series on numbers: no exception on a zero divisor,
\* x/0 is inf (signed) and 0/0 is nan.
TrueDiv(m, f) ==
    IF f = 0
    THEN IF m = 0 THEN NaN ELSE IF m > 0 THEN Inf ELSE NInf
    ELSE IF f > 0 THEN Frac(m, f) ELSE Frac(-m, -f)

\* numpy.where(cond, a, b), one element.
NpWhere(cond, a, b) == IF cond THEN a ELSE b

\* Series.astype(int) of a boolean.
AsInt(b) == IF b THEN 1 ELSE 0

RECURSIVE SeqSum(_)
SeqSum(s) == IF s = <<>> THEN 0 ELSE Head(s) + SeqSum(Tail(s))

SetMax(S) == CHOOSE x \in S : \A y \in S : y <= x

(***************************************************************************)
(* ChurnPredictor._create_features                                         *)
(***************************************************************************)
ChurnThreshold == 90

FeatureCols == <<"frequency", "monetary", "avg_ticket">>

\* Columns _create_features reads from the customer feature table.
ChurnRequiredCols == {"recency", "frequency", "monetary"}

AvgTicketUnguarded(monetary, frequency) == TrueDiv(monetary, frequency)

\* np.where(frequency > 0, monetary / frequency, 0)
AvgTicket(monetary, frequency) ==
    NpWhere(frequency > 0, TrueDiv(monetary, frequency), Zero)

IsChurnOffByOne(recency) == AsInt(recency >= ChurnThreshold)

\* (recency > 90).astype(int)
IsChurn(recency) == AsInt(recency > ChurnThreshold)

\* (X, y, feature_cols), or the KeyError of the first column it misses.
Churn_create_features(df) ==
    IF ~ ({"frequency", "monetary"} \subseteq df.cols)
    THEN [raised |-> "KeyError"]
    ELSE IF "recency" \notin df.cols
    THEN [raised |-> "KeyError"]
    ELSE [raised |-> "none",
          X |-> [i \in DOMAIN df.rows |->
                    [frequency  |-> df.rows[i].frequency,
                     monetary   |-> df.rows[i].monetary,
                     avg_ticket |-> AvgTicket(df.rows[i].monetary,
                                              df.rows[i].frequency)]],
          y |-> [i \in DOMAIN df.rows |-> IsChurn(df.rows[i].recency)],
          feature_cols |-> FeatureCols]

(***************************************************************************)
(* SpecFeatures: _create_features on every table within the bounds         *)
(***************************************************************************)
MaxRows == 2

RecencyVals   == {0, 90, 91, 100}
FrequencyVals == {0, 1, 3}
MonetaryVals  == {0, 10, 60}

FeatureRows ==
    [recency : RecencyVals, frequency : FrequencyVals, monetary : MonetaryVals]

SeqsUpTo(S, n) == UNION {[1..m -> S] : m \in 0..n}

AllFeatureCols == {"customer_id", "recency", "frequency", "monetary", "segment"}

\* The variables of the other specifications keep their initial value.
InitFeatures ==
    /\ cf_df \in [cols : {AllFeatureCols, AllFeatureCols \ {"recency"}},
                  rows : SeqsUpTo(FeatureRows, MaxRows)]
    /\ cf_out = None
    /\ pp = None /\ raw = None /\ processed = None
    /\ churn = None /\ sales = None /\ fs = None /\ dumped = None /\ last = None
    /\ page = None
    /\ pc = None

CreateFeatures ==
    /\ cf_out = None
    /\ cf_out' = Churn_create_features(cf_df)
    /\ UNCHANGED <<cf_df, pipelineVars, modelVars, servingVars, progressVars>>

(***************************************************************************)
(* Nullable cells and dates                                                *)
(***************************************************************************)
\* A cell that may be null (NaN / NaT) is Null or Some(v).
Null == [null |-> TRUE]
Some(v) == [v |-> v]
IsNull(c) == "null" \in DOMAIN c

\* A date as the CSV holds it is [iso |-> <<year, month, day>>]; as a
\* Timestamp it is [ts |-> days since 2022-01-01].
EpochYear == 2022

IsLeap(y) == (y % 4 = 0 /\ y % 100 # 0) \/ y % 400 = 0

DaysInMonth(y, m) ==
    IF m = 2 THEN (IF IsLeap(y) THEN 29 ELSE 28)
    ELSE IF m \in {4, 6, 9, 11} THEN 30 ELSE 31

DaysInYear(y) == IF IsLeap(y) THEN 366 ELSE 365

RECURSIVE DaysBeforeYear(_)
DaysBeforeYear(y) ==
    IF y <= EpochYear THEN 0 ELSE DaysBeforeYear(y - 1) + DaysInYear(y - 1)

RECURSIVE DaysBeforeMonth(_, _)
DaysBeforeMonth(y, m) ==
    IF m <= 1 THEN 0 ELSE DaysBeforeMonth(y, m - 1) + DaysInMonth(y, m - 1)

IsoDate(y, m, d) == [iso |-> <<y, m, d>>]
Timestamp(n) == [ts |-> n]
IsTimestamp(c) == "ts" \in DOMAIN c

\* pd.to_datetime of one cell: an ISO date is parsed, a Timestamp is kept.
ToDatetime(c) ==
    IF IsTimestamp(c) THEN c
    ELSE Timestamp(DaysBeforeYear(c.iso[1]) + DaysBeforeMonth(c.iso[1], c.iso[2])
                   + (c.iso[3] - 1))

RECURSIVE YearOf(_, _)
YearOf(n, y) == IF n < DaysInYear(y) THEN y ELSE YearOf(n - DaysInYear(y), y + 1)

RECURSIVE MonthOf(_, _, _)
MonthOf(n, y, m) ==
    IF n < DaysInMonth(y, m) THEN m ELSE MonthOf(n - DaysInMonth(y, m), y, m + 1)

\* Series.dt.year, .dt.month, .dt.dayofweek (Monday is 0; 2022-01-01 is a
\* Saturday, 5).
DtYear(t) == YearOf(t.ts, EpochYear)
DtMonth(t) == MonthOf(t.ts - DaysBeforeYear(DtYear(t)), DtYear(t), 1)
DtDayOfWeek(t) == (t.ts + 5) % 7

\* DataFrame.to_csv of a Timestamp cell: the ISO date again.
ToIso(t) ==
    LET y == DtYear(t)
        m == DtMonth(t)
    IN  IsoDate(y, m, t.ts - DaysBeforeYear(y) - DaysBeforeMonth(y, m) + 1)

(***************************************************************************)
(* DataPreprocessor                                                        *)
(***************************************************************************)
RECURSIVE Flatten(_)
Flatten(ss) == IF ss = <<>> THEN <<>> ELSE Head(ss) \o Flatten(Tail(ss))

RECURSIVE SortedSeq(_)
SortedSeq(S) ==
    IF S = {} THEN <<>>
    ELSE LET m == CHOOSE x \in S : \A y \in S : x <= y
         IN  <<m>> \o SortedSeq(S \ {m})

Range(s) == {s[i] : i \in DOMAIN s}

TxCols == {"date", "customer_id", "product_id", "quantity", "total_amount"}
TemporalCols == {"year", "month", "day_of_week"}
ProductCols == {"product_id", "category", "price", "cost"}

\* __init__
NewPreprocessor ==
    [customers |-> None, products |-> None, transactions |-> None,
     sales_processed |-> None, customer_features |-> None]

\* products.rename(columns={'id': 'product_id'}, inplace=True)
RenameId(df) ==
    [cols |-> (df.cols \ {"id"}) \cup {"product_id"},
     rows |-> [i \in DOMAIN df.rows |->
                 [product_id |-> df.rows[i].id, category |-> df.rows[i].category,
                  price |-> df.rows[i].price, cost |-> df.rows[i].cost]]]

\* load_data: the three CSV files read into the instance.
PP_load_data(self, files) ==
    [self |-> [self EXCEPT !.customers = files.customers,
                           !.products = RenameId(files.products),
                           !.transactions = files.transactions],
     raised |-> "none", names |-> None]

\* A cell of a column the table does not have.
Absent == [absent |-> TRUE]

\* df[label] on a table without the label(s): KeyError naming them; the
\* instance is left as it was when the lookup ran.
KeyError(self, missing) == [self |-> self, raised |-> "KeyError", names |-> missing]

\* Lines 55-60: the date column converted and the temporal columns added, on
\* self.transactions itself.
WithTemporal(tx) ==
    [cols |-> tx.cols \cup TemporalCols,
     rows |-> [i \in DOMAIN tx.rows |->
        LET r == tx.rows[i]
            t == ToDatetime(r.date)
        IN  [date |-> t, customer_id |-> r.customer_id, product_id |-> r.product_id,
             quantity |-> r.quantity, total_amount |-> r.total_amount,
             year |-> DtYear(t), month |-> DtMonth(t),
             day_of_week |-> DtDayOfWeek(t)]]]

\* The rows of products that a transaction's product_id matches (a null key
\* matches no product, whose ids are never null).
Matches(r, products) ==
    SelectSeq(products.rows,
              LAMBDA p : ~IsNull(r.product_id) /\ p.product_id = r.product_id.v)

\* (price - cost) * quantity, null when price or cost is.
Margin(price, cost, quantity) ==
    IF IsNull(price) \/ IsNull(cost) THEN Null
    ELSE Some((price.v - cost.v) * quantity)

Enriched(r, category, price, cost) ==
    [date |-> r.date, customer_id |-> r.customer_id, product_id |-> r.product_id,
     quantity |-> r.quantity, total_amount |-> r.total_amount,
     year |-> r.year, month |-> r.month, day_of_week |-> r.day_of_week,
     category |-> category, price |-> price, cost |-> cost,
     margin |-> Margin(price, cost, r.quantity)]

MergeProductsInner(tx, products) ==
    [cols |-> tx.cols \cup ProductCols \cup {"margin"},
     rows |-> Flatten([i \in DOMAIN tx.rows |->
        LET r == tx.rows[i]
            ms == Matches(r, products)
        IN  [j \in DOMAIN ms |->
                Enriched(r, Some(ms[j].category), Some(ms[j].price),
                         Some(ms[j].cost))]])]

\* transactions.merge(products[[...]], on='product_id', how='left') and the
\* margin column: left order kept, one row per matching product, one row of
\* nulls where none matches.
MergeProducts(tx, products) ==
    [cols |-> tx.cols \cup ProductCols \cup {"margin"},
     rows |-> Flatten([i \in DOMAIN tx.rows |->
        LET r == tx.rows[i]
            ms == Matches(r, products)
        IN  IF ms = <<>> THEN <<Enriched(r, Null, Null, Null)>>
            ELSE [j \in DOMAIN ms |->
                    Enriched(r, Some(ms[j].category), Some(ms[j].price),
                             Some(ms[j].cost))]])]

\* The merge of lines 63-67 alone, before the margin column is added.
JoinProducts(tx, products) ==
    [cols |-> tx.cols \cup ProductCols,
     rows |-> Flatten([i \in DOMAIN tx.rows |->
        LET r == tx.rows[i]
            ms == Matches(r, products)
            Joined(category, price, cost) ==
                [date |-> r.date, customer_id |-> r.customer_id,
                 product_id |-> r.product_id, quantity |-> r.quantity,
                 total_amount |-> r.total_amount, year |-> r.year,
                 month |-> r.month, day_of_week |-> r.day_of_week,
                 category |-> category, price |-> price, cost |-> cost]
        IN  IF ms = <<>> THEN <<Joined(Null, Null, Null)>>
            ELSE [j \in DOMAIN ms |->
                    Joined(Some(ms[j].category), Some(ms[j].price),
                           Some(ms[j].cost))]])]

\* preprocess_transactions, statement by statement: the date lookup (55),
\* the temporal columns written on self.transactions (55-60), the product
\* column selection and the merge assigned to self.sales_processed (63-67),
\* the margin column (70-73).
PP_preprocess_transactions(self) ==
    IF self.transactions = None
    THEN [self |-> self, raised |-> "TypeError", names |-> None]
    ELSE IF "date" \notin self.transactions.cols
    THEN KeyError(self, {"date"})
    ELSE LET tx == WithTemporal(self.transactions)
             s1 == [self EXCEPT !.transactions = tx]
         IN  IF ~ (ProductCols \subseteq self.products.cols)
             THEN KeyError(s1, ProductCols \ self.products.cols)
             ELSE IF "product_id" \notin tx.cols
             THEN KeyError(s1, {"product_id"})
             ELSE IF "quantity" \notin tx.cols
             THEN KeyError([s1 EXCEPT !.sales_processed =
                                          JoinProducts(tx, self.products)],
                           {"quantity"})
             ELSE [self |-> [s1 EXCEPT !.sales_processed =
                                           MergeProducts(tx, self.products)],
                   raised |-> "none", names |-> None]

\* The rows of one customer (groupby('customer_id')).
GroupRows(df, c) == SelectSeq(df.rows, LAMBDA r : r.customer_id = c)

\* self.sales_processed['date'].max()
MaxDate(df) == SetMax({df.rows[i].date.ts : i \in DOMAIN df.rows})

RecencyFromEarliest(max_date, g) ==
    max_date - (CHOOSE x \in {g[i].date.ts : i \in DOMAIN g} :
                    \A j \in DOMAIN g : x <= g[j].date.ts)

\* 'date': lambda x: (max_date - x.max()).days
Recency(max_date, g) == max_date - SetMax({g[i].date.ts : i \in DOMAIN g})

\* 'product_id': 'count' counts the non-null cells of the column.
Frequency(g) == Len(SelectSeq(g, LAMBDA r : ~IsNull(r.product_id)))

\* 'total_amount': 'sum'
Monetary(g) == SeqSum([i \in DOMAIN g |-> g[i].total_amount])

\* groupby(...).agg(...).reset_index(): one row per customer_id present, in
\* ascending customer_id order.
Rfm(sp) ==
    LET ids == SortedSeq({sp.rows[i].customer_id : i \in DOMAIN sp.rows})
        max_date == MaxDate(sp)
    IN  [i \in DOMAIN ids |->
            LET g == GroupRows(sp, ids[i])
            IN  [customer_id |-> ids[i], recency |-> Recency(max_date, g),
                 frequency |-> Frequency(g), monetary |-> Monetary(g)]]

\* rfm.merge(customers, on='customer_id', how='left')
MergeCustomers(rfm, customers) ==
    Flatten([i \in DOMAIN rfm |->
        LET r == rfm[i]
            ms == SelectSeq(customers.rows, LAMBDA c : c.customer_id = r.customer_id)
            Out(seg) == [customer_id |-> r.customer_id, recency |-> r.recency,
                         frequency |-> r.frequency, monetary |-> r.monetary,
                         segment |-> seg]
        IN  IF ms = <<>> THEN <<Out(Null)>>
            ELSE [j \in DOMAIN ms |->
                    Out(IF "segment" \in customers.cols
                        THEN Some(ms[j].segment) ELSE Absent)]])

RfmCols == {"customer_id", "recency", "frequency", "monetary"}

\* Columns the groupby and its aggregation read.
RfmInputCols == {"customer_id", "date", "product_id", "total_amount"}

PP_create_customer_features(self) ==
    IF self.sales_processed = None
    THEN [self |-> self, raised |-> "TypeError", names |-> None]
    ELSE IF ~ (RfmInputCols \subseteq self.sales_processed.cols)
    THEN KeyError(self, RfmInputCols \ self.sales_processed.cols)
    ELSE IF "customer_id" \notin self.customers.cols
    THEN KeyError(self, {"customer_id"})
    ELSE [self |-> [self EXCEPT !.customer_features =
                      [cols |-> RfmCols \cup self.customers.cols,
                       rows |-> MergeCustomers(Rfm(self.sales_processed),
                                               self.customers)]],
          raised |-> "none", names |-> None]

\* DataFrame.to_csv of the enriched transactions: Timestamps are written
\* as ISO dates.
SalesToCsv(df) ==
    [cols |-> df.cols,
     rows |-> [i \in DOMAIN df.rows |-> [df.rows[i] EXCEPT !.date = ToIso(@)]]]

\* save_data: sales_processed.csv first, customer_features.csv second.
PP_save_data(self, files) ==
    IF self.sales_processed = None
    THEN [files |-> files, raised |-> "AttributeError", names |-> None]
    ELSE IF self.customer_features = None
    THEN [files |-> [files EXCEPT !.sales_processed = SalesToCsv(self.sales_processed)],
          raised |-> "AttributeError", names |-> None]
    ELSE [files |-> [sales_processed |-> SalesToCsv(self.sales_processed),
                     customer_features |-> self.customer_features],
          raised |-> "none", names |-> None]

\* run_pipeline: the four steps in order; an exception of a step ends the
\* run.
PP_run_pipeline(self, rawFiles, files) ==
    LET a == PP_load_data(self, rawFiles)
        b == PP_preprocess_transactions(a.self)
        c == PP_create_customer_features(b.self)
        d == PP_save_data(c.self, files)
    IN  IF b.raised # "none"
        THEN [self |-> b.self, files |-> files, raised |-> b.raised, names |-> b.names]
        ELSE IF c.raised # "none"
        THEN [self |-> c.self, files |-> files, raised |-> c.raised, names |-> c.names]
        ELSE [self |-> c.self, files |-> d.files, raised |-> d.raised, names |-> d.names]

(***************************************************************************)
(* SpecPipeline: the pipeline on every raw data set within the bounds      *)
(***************************************************************************)
MaxTx == 3

\* 2022-01-01 and 2022-04-11: days 0 and 100.
TxDates == {IsoDate(2022, 1, 1), IsoDate(2022, 4, 11)}
CustomerIds == {1, 2}
\* Product 1 is in products.csv, product 7 is not, and a cell may be empty.
TxProductIds == {Some(1), Some(7), Null}
Amounts == {10, 20}
Quantities == {2}

TxRows ==
    [date : TxDates, customer_id : CustomerIds, product_id : TxProductIds,
     quantity : Quantities, total_amount : Amounts]

\* transactions.csv is written sorted by date (generate_transactions); rows
\* of one date are listed in one order, which no aggregate depends on.
RowRank(r) ==
    ToDatetime(r.date).ts * 1000 + r.customer_id * 100
    + (IF IsNull(r.product_id) THEN 0 ELSE r.product_id.v) * 10
    + r.total_amount \div 10

IsSortedTable(rows) ==
    \A i \in 1..(Len(rows) - 1) : RowRank(rows[i]) <= RowRank(rows[i + 1])

TransactionTables ==
    [cols : {TxCols},
     rows : {t \in SeqsUpTo(TxRows, MaxTx) \ {<<>>} : IsSortedTable(t)}]

ProductTables ==
    {[cols |-> {"id", "category", "price", "cost"},
      rows |-> <<[id |-> 1, category |-> "Hogar", price |-> 50, cost |-> 30]>>]}

\* customers.csv: customer 1 is in it, customer 2 is not.
CustomerTables ==
    {[cols |-> {"customer_id", "segment"},
      rows |-> <<[customer_id |-> 1, segment |-> "Particular"]>>]}

\* customers.csv otherwise: empty, customer 1 listed twice, or customer 1
\* next to a customer 3 who bought nothing.
CustomerVariants ==
    {[cols |-> {"customer_id", "segment"}, rows |-> rs] :
        rs \in {<<>>,
                <<[customer_id |-> 1, segment |-> "Particular"],
                  [customer_id |-> 1, segment |-> "Empresa"]>>,
                <<[customer_id |-> 1, segment |-> "Particular"],
                  [customer_id |-> 3, segment |-> "Empresa"]>>}}

\* Short transaction tables of product 1, read next to the other
\* customers.csv files and next to the files that lack a column.
MaxTxLite == 2

LiteTransactionTables ==
    {t \in TransactionTables :
        /\ Len(t.rows) <= MaxTxLite
        /\ \A i \in DOMAIN t.rows :
              t.rows[i].product_id = Some(1) /\ t.rows[i].total_amount = 10}

\* A CSV file written without one of its columns.
DropColumn(df, c) ==
    [cols |-> df.cols \ {c},
     rows |-> [i \in DOMAIN df.rows |-> [df.rows[i] EXCEPT ![c] = Absent]]]

RawInputs(customers, products, transactions) ==
    [customers : customers, products : products, transactions : transactions]

\* The raw files: every transaction table next to the usual customers.csv,
\* the short ones next to the other customers.csv files, and the short
\* ones with one column missing from one of the three files.
RawDataSets ==
    RawInputs(CustomerTables, ProductTables, TransactionTables)
    \cup RawInputs(CustomerVariants, ProductTables, LiteTransactionTables)
    \cup RawInputs(CustomerTables, ProductTables,
                   {DropColumn(t, c) : t \in LiteTransactionTables,
                                       c \in {"date", "quantity"}})
    \cup RawInputs(CustomerTables,
                   {DropColumn(t, "cost") : t \in ProductTables},
                   LiteTransactionTables)
    \cup RawInputs({DropColumn(t, "segment") : t \in CustomerTables},
                   ProductTables, LiteTransactionTables)

\* How the batch run ended, while it is the last call made on the pipeline.
PipelineCall(op, r) == [op |-> op, raised |-> r.raised, names |-> r.names]

NoPipelineCall == PipelineCall("none", [raised |-> "none", names |-> None])

InitPipeline ==
    /\ pp = NewPreprocessor
    /\ raw \in RawDataSets
    /\ processed = [sales_processed |-> None, customer_features |-> None]
    /\ last = NoPipelineCall
    /\ cf_df = None /\ cf_out = None
    /\ churn = None /\ sales = None /\ fs = None /\ dumped = None
    /\ page = None
    /\ pc = None

LoadData ==
    /\ pp' = PP_load_data(pp, raw).self
    /\ last' = NoPipelineCall
    /\ UNCHANGED <<raw, processed, featureVars, churn, sales, fs, dumped, servingVars, progressVars>>

PreprocessTransactions ==
    /\ pp' = PP_preprocess_transactions(pp).self
    /\ last' = NoPipelineCall
    /\ UNCHANGED <<raw, processed, featureVars, churn, sales, fs, dumped, servingVars, progressVars>>

CreateCustomerFeatures ==
    /\ pp' = PP_create_customer_features(pp).self
    /\ last' = NoPipelineCall
    /\ UNCHANGED <<raw, processed, featureVars, churn, sales, fs, dumped, servingVars, progressVars>>

SaveData ==
    /\ processed' = PP_save_data(pp, processed).files
    /\ last' = NoPipelineCall
    /\ UNCHANGED <<pp, raw, featureVars, churn, sales, fs, dumped, servingVars, progressVars>>

RunPipeline ==
    /\ \E r \in {PP_run_pipeline(pp, raw, processed)} :
        pp' = r.self /\ processed' = r.files /\ last' = PipelineCall("run_pipeline", r)
    /\ UNCHANGED <<raw, featureVars, churn, sales, fs, dumped, servingVars, progressVars>>

(***************************************************************************)
(* Library calls of the predictors, by their documented behaviour          *)
(***************************************************************************)
\* pickle.dump(obj, f): the bytes hold the object's class and its state.
PickleDumpNoBooster(obj) ==
    [pickle |-> obj.cls, state |-> [params |-> obj.params, fitted |-> None]]

PickleDump(obj) ==
    [pickle |-> obj.cls, state |-> [params |-> obj.params, fitted |-> obj.fitted]]

\* pickle.load(f): the object rebuilt from the bytes.
PickleLoad(bytes) ==
    [cls |-> bytes.pickle, params |-> bytes.state.params,
     fitted |-> bytes.state.fitted]

\* The distinct labels of y.
Classes(y) == Range(y)

CountOf(y, c) == Cardinality({i \in DOMAIN y : y[i] = c})

\* ceil(test_size * n), test_size in percent.
NTest(n, test_size) == (test_size * n + 99) \div 100

\* A split that refuses only an empty table.
SplitRaisesOnEmpty(y, test_size) == Len(y) = 0

\* sklearn's train_test_split(X, y, test_size, random_state, stratify=y)
\* raises ValueError when the train part would be empty, when a class has
\* fewer than 2 members, or when a part is smaller than the number of
\* classes.
SplitRaises(y, test_size) ==
    LET n == Len(y)
        n_test == NTest(n, test_size)
        n_train == n - n_test
    IN  \/ n = 0
        \/ n_train <= 0
        \/ \E c \in Classes(y) : CountOf(y, c) < 2
        \/ n_train < Cardinality(Classes(y))
        \/ n_test < Cardinality(Classes(y))

\* The parts of the split: which rows land where is the library's (seeded)
\* choice, so a part is named by what it was cut from.
SplitPart(part, data, test_size, random_state) ==
    [part |-> part, of |-> data, test_size |-> test_size,
     random_state |-> random_state]

\* XGBClassifier(...) before fit.  learning_rate 0.1, subsample 0.8 and
\* colsample_bytree 0.8 are written in percent.
NewXGBClassifier(random_state) ==
    [cls |-> "XGBClassifier",
     params |-> [n_estimators |-> 100, max_depth |-> 6, learning_rate |-> 10,
                 subsample |-> 80, colsample_bytree |-> 80,
                 random_state |-> random_state, eval_metric |-> "logloss"],
     fitted |-> None]

\* XGBClassifier.fit raises ValueError unless the labels are 0..k-1: a table
\* whose customers all churn has the classes [1], not [0].
FitRaises(y) == Classes(y) \notin {{0}, {0, 1}}

\* A tree of one split.  A row with feature < split falls in the left leaf.
\* Leaf values and margins are in log-odds, cover is the number of training
\* rows of a leaf.  The gain of a split (its loss reduction) over two leaves
\* of equal cover is proportional to the square of the distance between the
\* leaf values; the factor is the same for every split and cancels when
\* gains are normalised.
Stump(feature, split, left, right) ==
    [feature |-> feature, split |-> split, left |-> left, right |-> right,
     cover_left |-> 1, cover_right |-> 1,
     gain |-> (left - right) * (left - right)]

\* XGBClassifier(...) is built without min_child_weight, so the default 1
\* applies: a split needs a hessian sum of at least 1 in each child, and a
\* row of the logistic loss weighs p(1-p) <= 1/4.  Fewer than 8 training
\* rows therefore grow no split at all.
MinSplitRows == 8

\* What boosting can grow on the training part of the table at `path`: no
\* split on a part below MinSplitRows; on a larger part no split (no gain)
\* or the splits of one of these ensembles.  Which one is the library's
\* (seeded) result for the data; the caller draws it.
GrowableTrees(files, path, test_size) ==
    IF files[path] = None THEN {<<>>}
    ELSE LET n == Len(files[path].rows)
         IN  IF n - NTest(n, test_size) < MinSplitRows THEN {<<>>}
             ELSE {<<>>,
                   <<Stump("frequency", 2, 1, -1), Stump("monetary", 50, 2, -1)>>,
                   <<Stump("monetary", 50, 1, -1), Stump("avg_ticket", 20, 1, -1),
                     Stump("avg_ticket", 10, 2, -1)>>,
                   <<Stump("avg_ticket", 20, 2, -2)>>}

\* The fitted booster is a function of the training part and the
\* parameters; it records the training columns and holds the trees grown.
XGBFit(model, X_train, y_train, feature_cols, grown) ==
    [model EXCEPT !.fitted = [X |-> X_train, y |-> y_train,
                              feature_names |-> feature_cols,
                              base_margin |-> 0, trees |-> grown]]

\* confusion_matrix(...).ravel() has 4 entries only when two labels occur:
\* on a one-class table the unpacking into tn, fp, fn, tp raises ValueError
\* (and roc_auc_score is undefined).
MetricsRaise(y) == Cardinality(Classes(y)) < 2

EmptyMetrics == [k |-> "empty"]

\* The seven metrics, a function of the fitted model and the two parts.
Metrics(model, train_part, test_part) ==
    [k |-> "metrics", model |-> model.fitted, test |-> test_part]

\* model.predict(X) / model.predict_proba(X)[:, 1]: NotFittedError before
\* fit, ValueError when X's columns are not the training columns, else a
\* value per row, a function of the booster and X.
XGBPredict(model, X, what) ==
    IF model.fitted = None THEN [raised |-> "NotFittedError", value |-> None]
    ELSE IF X.cols # model.fitted.feature_names
    THEN [raised |-> "ValueError", value |-> None]
    ELSE [raised |-> "none",
          value |-> [what |-> what, by |-> model.fitted,
                     rows |-> X.rows]]

(***************************************************************************)
(* ChurnPredictor                                                          *)
(***************************************************************************)
ChurnDataPath  == "data/processed/customer_features.csv"
ChurnModelPath == "models/churn_model.pkl"
SalesDataPath  == "data/processed/sales_processed.csv"
SalesModelPath == "models/sales_model.pkl"

Paths == {ChurnDataPath, ChurnModelPath, SalesDataPath, SalesModelPath}

RandomState == 42

\* What a call gives back: the instance and the files after it, the
\* exception it raised ("none": it returned), the value it returned and the
\* path its error message names.
Ret(self, files, raised, value, names) ==
    [self |-> self, files |-> files, raised |-> raised, value |-> value,
     names |-> names]

\* __init__
NewChurnPredictor ==
    [data_path |-> ChurnDataPath, model_path |-> ChurnModelPath,
     random_state |-> RandomState, model |-> None, feature_names |-> None,
     metrics |-> EmptyMetrics, X_test |-> None, y_test |-> None]

Churn_train_on_dump_before_fit(self, files, cf, test_size, grown) ==
    LET s1 == [self EXCEPT !.feature_names = cf.feature_cols]
        data == [X |-> cf.X, y |-> cf.y]
        part(p) == SplitPart(p, data, test_size, self.random_state)
        s2 == [s1 EXCEPT !.X_test = part("X_test"), !.y_test = part("y_test")]
        s3 == [s2 EXCEPT !.model = NewXGBClassifier(self.random_state)]
        s4 == [s3 EXCEPT !.model = XGBFit(s3.model, part("X_train"),
                                          part("y_train"), cf.feature_cols,
                                          grown)]
        s5 == [s4 EXCEPT !.metrics = Metrics(s4.model, part("train"), part("test"))]
    IN  IF SplitRaises(cf.y, test_size) THEN Ret(s1, files, "ValueError", None, None)
        ELSE IF FitRaises(cf.y) THEN Ret(s3, files, "ValueError", None, None)
        ELSE IF MetricsRaise(cf.y) THEN Ret(s4, files, "ValueError", None, None)
        ELSE Ret(s5, [files EXCEPT ![self.model_path] = PickleDump(s3.model)],
                 "none", None, None)

\* A train that dumps the classifier right after the fit, before the metrics.
Churn_train_on_dump_before_metrics(self, files, cf, test_size, grown) ==
    LET s1 == [self EXCEPT !.feature_names = cf.feature_cols]
        data == [X |-> cf.X, y |-> cf.y]
        part(p) == SplitPart(p, data, test_size, self.random_state)
        s2 == [s1 EXCEPT !.X_test = part("X_test"), !.y_test = part("y_test")]
        s3 == [s2 EXCEPT !.model = NewXGBClassifier(self.random_state)]
        s4 == [s3 EXCEPT !.model = XGBFit(s3.model, part("X_train"),
                                          part("y_train"), cf.feature_cols,
                                          grown)]
        s5 == [s4 EXCEPT !.metrics = Metrics(s4.model, part("train"), part("test"))]
        written == [files EXCEPT ![self.model_path] = PickleDump(s4.model)]
    IN  IF SplitRaises(cf.y, test_size) THEN Ret(s1, files, "ValueError", None, None)
        ELSE IF FitRaises(cf.y) THEN Ret(s3, files, "ValueError", None, None)
        ELSE IF MetricsRaise(cf.y) THEN Ret(s4, written, "ValueError", None, None)
        ELSE Ret(s5, written, "none", None, None)

\* train, after the data file was found and its features built: the split,
\* the fit, the metrics and the dump, each of which may raise.
Churn_train_on(self, files, cf, test_size, grown) ==
    LET s1 == [self EXCEPT !.feature_names = cf.feature_cols]
        data == [X |-> cf.X, y |-> cf.y]
        part(p) == SplitPart(p, data, test_size, self.random_state)
        s2 == [s1 EXCEPT !.X_test = part("X_test"), !.y_test = part("y_test")]
        s3 == [s2 EXCEPT !.model = NewXGBClassifier(self.random_state)]
        s4 == [s3 EXCEPT !.model = XGBFit(s3.model, part("X_train"),
                                          part("y_train"), cf.feature_cols,
                                          grown)]
        s5 == [s4 EXCEPT !.metrics = Metrics(s4.model, part("train"), part("test"))]
    IN  IF SplitRaises(cf.y, test_size) THEN Ret(s1, files, "ValueError", None, None)
        ELSE IF FitRaises(cf.y) THEN Ret(s3, files, "ValueError", None, None)
        ELSE IF MetricsRaise(cf.y) THEN Ret(s4, files, "ValueError", None, None)
        ELSE Ret(s5, [files EXCEPT ![self.model_path] = PickleDump(s5.model)],
                 "none", None, None)

Churn_train(self, files, test_size, grown) ==
    IF files[self.data_path] = None
    THEN Ret(self, files, "FileNotFoundError", None, self.data_path)
    ELSE LET cf == Churn_create_features(files[self.data_path])
         IN  IF cf.raised # "none"
             THEN Ret(self, files, cf.raised, None, None)
             ELSE Churn_train_on(self, files, cf, test_size, grown)

Churn_predict_churn_probability_unguarded(self, X) ==
    IF self.model = None
    THEN Ret(self, None, "AttributeError", None, None)
    ELSE LET r == XGBPredict(self.model, X, "predict_proba")
         IN  Ret(self, None, r.raised, r.value, None)

Churn_predict_churn_probability(self, X) ==
    IF self.model = None
    THEN Ret(self, None, "RuntimeError", None, None)
    ELSE LET r == XGBPredict(self.model, X, "predict_proba")
         IN  Ret(self, None, r.raised, r.value, None)

\* A predict that keeps the frame it was handed on the instance.
Churn_predict_keeping_input(self, X) ==
    IF self.model = None
    THEN Ret(self, None, "RuntimeError", None, None)
    ELSE LET r == XGBPredict(self.model, X, "predict")
         IN  Ret([self EXCEPT !.X_test = X], None, r.raised, r.value, None)

Churn_predict(self, X) ==
    IF self.model = None
    THEN Ret(self, None, "RuntimeError", None, None)
    ELSE LET r == XGBPredict(self.model, X, "predict")
         IN  Ret(self, None, r.raised, r.value, None)

RECURSIVE SeqProd(_)
SeqProd(s) == IF Len(s) = 0 THEN 1 ELSE Head(s) * SeqProd(Tail(s))

\* XGBModel.feature_importances_ (importance_type "gain"): per training
\* column the average gain of the splits on it, 0 for a column no tree
\* splits on, divided by the total; when the total is 0 (no split in any
\* tree) the zeros are returned as they are.
XGBFeatureImportances(fitted) ==
    LET names == fitted.feature_names
        on(k) == {t \in DOMAIN fitted.trees : fitted.trees[t].feature = names[k]}
        gain == [k \in DOMAIN names |->
                    SeqSum([t \in DOMAIN fitted.trees |->
                               IF t \in on(k) THEN fitted.trees[t].gain ELSE 0])]
        count == [k \in DOMAIN names |->
                     IF on(k) = {} THEN 1 ELSE Cardinality(on(k))]
        \* the average gains over their common denominator
        score == [k \in DOMAIN names |-> gain[k] * (SeqProd(count) \div count[k])]
        total == SeqSum(score)
    IN  [k \in DOMAIN names |->
            IF total = 0 THEN Zero ELSE Frac(score[k], total)]

\* a > b on floats that are numbers
FloatGreater(a, b) == a.n * b.d > b.n * a.d

\* The rows as they are.
Unsorted(rows) == rows

\* DataFrame.sort_values('importance', ascending=False): rows of equal
\* importance keep their order (pandas sorts the reversed frame and reverses
\* the result; numpy sorts a frame this short by insertion).
SortByImportance(rows) ==
    LET place(k) == 1 + Cardinality({j \in DOMAIN rows :
                          \/ FloatGreater(rows[j].importance, rows[k].importance)
                          \/ (j < k /\ rows[j].importance = rows[k].importance)})
    IN  [i \in DOMAIN rows |-> rows[CHOOSE k \in DOMAIN rows : place(k) = i]]

\* model.feature_importances_ raises NotFittedError before fit; the frame
\* pairs self.feature_names with the importances, sorted by importance.
Churn_get_feature_importance(self) ==
    IF self.model = None
    THEN Ret(self, None, "RuntimeError", None, None)
    ELSE IF self.model.fitted = None
    THEN Ret(self, None, "NotFittedError", None, None)
    ELSE LET importances == XGBFeatureImportances(self.model.fitted)
             frame == [k \in DOMAIN self.feature_names |->
                          [feature |-> self.feature_names[k],
                           importance |-> importances[k]]]
         IN  IF Len(self.feature_names) # Len(importances)
             THEN Ret(self, None, "ValueError", None, None)
             ELSE Ret(self, None, "none",
                      [cols |-> <<"feature", "importance">>,
                       rows |-> SortByImportance(frame)], None)

Churn_load_model_keep_names(self, files) ==
    IF files[self.model_path] = None
    THEN Ret(self, files, "FileNotFoundError", None, self.model_path)
    ELSE Ret([self EXCEPT !.model = PickleLoad(files[self.model_path])],
             files, "none", None, None)

Churn_load_model_reset_first(self, files) ==
    IF files[self.model_path] = None
    THEN Ret([self EXCEPT !.model = None], files, "FileNotFoundError", None,
             self.model_path)
    ELSE Ret([self EXCEPT !.model = PickleLoad(files[self.model_path]),
                          !.feature_names =
                              IF self.feature_names = None THEN FeatureCols ELSE @],
             files, "none", None, None)

Churn_load_model(self, files) ==
    IF files[self.model_path] = None
    THEN Ret(self, files, "FileNotFoundError", None, self.model_path)
    ELSE Ret([self EXCEPT !.model = PickleLoad(files[self.model_path]),
                          !.feature_names =
                              IF self.feature_names = None
                              THEN <<"frequency", "monetary", "avg_ticket">>
                              ELSE @],
             files, "none", None, None)

(***************************************************************************)
(* SalesTimeSeriesPredictor                                                *)
(***************************************************************************)
MinDays == 30

SalesRequiredCols == {"date", "total_amount", "quantity"}

\* __init__
NewSalesPredictor ==
    [data_path |-> SalesDataPath, model_path |-> SalesModelPath,
     model |-> None, df_train |-> None]

\* Prophet(...) before fit; interval_width 0.95 is written in percent.
NewProphet ==
    [cls |-> "Prophet",
     params |-> [yearly_seasonality |-> TRUE, weekly_seasonality |-> TRUE,
                 daily_seasonality |-> FALSE, interval_width |-> 95,
                 seasonality_mode |-> "additive"],
     fitted |-> None]

\* Prophet.fit keeps the history it was fitted on.
ProphetFit(model, df) == [model EXCEPT !.fitted = [history |-> df]]

\* df.groupby('date').agg(sum) renamed to (ds, y): one row per date, in
\* ascending date order.  groupby leaves out the rows whose key is NaT, and
\* sum skips the NaN cells of a group (a group of NaN cells only sums to 0).
DailySeries(df) ==
    LET dated == SelectSeq(df.rows, LAMBDA r : ~ IsNull(r.date))
        days == SortedSeq({ToDatetime(dated[i].date).ts : i \in DOMAIN dated})
    IN  [i \in DOMAIN days |->
            [ds |-> Timestamp(days[i]),
             y |-> Some(SeqSum(LET g == SelectSeq(dated,
                                      LAMBDA r : /\ ToDatetime(r.date).ts = days[i]
                                                 /\ ~ IsNull(r.total_amount))
                               IN  [j \in DOMAIN g |-> g[j].total_amount.v]))]]

\* df.isnull().any().any()
AnyNull(df) == \E i \in DOMAIN df : IsNull(df[i].ds) \/ IsNull(df[i].y)

\* df.dropna()
DropNa(df) == SelectSeq(df, LAMBDA r : ~ IsNull(r.ds) /\ ~ IsNull(r.y))

\* len(self.df_train) <= 30
TooFewDaysInclusive(df) == Len(df) <= MinDays

\* len(self.df_train) < 30
TooFewDays(df) == Len(df) < MinDays

Sales_train(self, files) ==
    IF files[self.data_path] = None
    THEN Ret(self, files, "FileNotFoundError", None, self.data_path)
    ELSE IF ~ (SalesRequiredCols \subseteq files[self.data_path].cols)
    THEN Ret(self, files, "KeyError", None, None)
    ELSE LET s0 == [self EXCEPT !.df_train = DailySeries(files[self.data_path])]
             s1 == IF AnyNull(s0.df_train)
                   THEN [s0 EXCEPT !.df_train = DropNa(s0.df_train)]
                   ELSE s0
             s2 == [s1 EXCEPT !.model = ProphetFit(NewProphet, s1.df_train)]
         IN  IF TooFewDays(s1.df_train)
             THEN Ret(s1, files, "ValueError", None, None)
             ELSE Ret(s2, [files EXCEPT ![self.model_path] = PickleDump(s2.model)],
                      "none", None, None)

\* model.make_future_dataframe(periods): the history's dates followed by the
\* next `periods` days.
MakeFutureDataframe(model, periods) ==
    LET h == model.fitted.history
        end == h[Len(h)].ds.ts
    IN  [i \in 1..(Len(h) + periods) |->
            IF i <= Len(h) THEN h[i].ds ELSE Timestamp(end + (i - Len(h)))]

\* model.predict(future): a row per date.  yhat is a function of the fitted
\* model and the date; the interval bounds also depend on the sampling the
\* call draws.
ProphetPredict(model, future, draw) ==
    [i \in DOMAIN future |->
        [ds |-> future[i],
         yhat |-> [q |-> "yhat", by |-> model.fitted],
         yhat_lower |-> [q |-> "lower", by |-> model.fitted, draw |-> draw],
         yhat_upper |-> [q |-> "upper", by |-> model.fitted, draw |-> draw]]]

\* The frame, whatever n.
WholeFrame(s, n) == s

\* DataFrame.tail(n)
Tail_n(s, n) ==
    IF n = 0 THEN <<>>
    ELSE IF n >= Len(s) THEN s
    ELSE SubSeq(s, Len(s) - n + 1, Len(s))

\* df['ds'].max()
RECURSIVE MaxDs(_)
MaxDs(df) ==
    IF Len(df) = 1 THEN df[1].ds.ts
    ELSE LET m == MaxDs(Tail(df))
         IN  IF df[1].ds.ts > m THEN df[1].ds.ts ELSE m

\* forecast[forecast['ds'] >= max_ds]
RowsFrom(forecast, max_ds) == SelectSeq(forecast, LAMBDA r : r.ds.ts >= max_ds)

\* forecast[forecast['ds'] > max_ds]
RowsAfter(forecast, max_ds) == SelectSeq(forecast, LAMBDA r : r.ds.ts > max_ds)

Sales_predict_next_days(self, days, draw) ==
    IF self.model = None
    THEN Ret(self, None, "RuntimeError", None, None)
    ELSE IF self.model.fitted = None
    THEN Ret(self, None, "Exception", None, None)
    ELSE LET forecast == ProphetPredict(self.model,
                                        MakeFutureDataframe(self.model, days), draw)
         IN  IF self.df_train # None
             THEN Ret(self, None, "none",
                      RowsAfter(forecast, MaxDs(self.df_train)), None)
             ELSE Ret(self, None, "none", Tail_n(forecast, days), None)

Sales_get_tomorrow_prediction(self, draw) ==
    IF self.model = None
    THEN Ret(self, None, "RuntimeError", None, None)
    ELSE IF self.model.fitted = None
    THEN Ret(self, None, "Exception", None, None)
    ELSE LET forecast == ProphetPredict(self.model,
                                        MakeFutureDataframe(self.model, 1), draw)
         IN  IF Len(forecast) > 0
             THEN LET last_pred == forecast[Len(forecast)]
                  IN  Ret(self, None, "none",
                          [date |-> last_pred.ds, yhat |-> last_pred.yhat,
                           yhat_lower |-> last_pred.yhat_lower,
                           yhat_upper |-> last_pred.yhat_upper], None)
             ELSE Ret(self, None, "none", None, None)

Sales_load_model(self, files) ==
    IF files[self.model_path] = None
    THEN Ret(self, files, "FileNotFoundError", None, self.model_path)
    ELSE Ret([self EXCEPT !.model = PickleLoad(files[self.model_path])],
             files, "none", None, None)

(***************************************************************************)
(* Spec: the two predictors over the files on disk                         *)
(***************************************************************************)
ChurnIds == {"c1", "c2"}
SalesIds == {"s1", "s2"}

\* test_size, in percent.
TestSizes == {20}

\* Forecast horizons asked of predict_next_days.
MaxDays == 2

\* The sampling one predict call draws for its interval bounds.
Draws == {"a", "b"}

\* customer_features.csv: n rows, the first nChurn of them with recency 100
\* and the others with recency 10.
ChurnTable(cols, n, nChurn, unit) ==
    [cols |-> cols,
     rows |-> [i \in 1..n |->
                 [recency |-> IF i <= nChurn THEN 100 ELSE 10,
                  frequency |-> (i % 3) + 1, monetary |-> unit * i]]]

ChurnDataSets ==
    {ChurnTable(AllFeatureCols, 6, 3, 10),                 \* trains
     ChurnTable(AllFeatureCols, 6, 2, 20),                 \* trains, other data
     ChurnTable(AllFeatureCols, 2, 0, 10),                 \* nobody churns
     ChurnTable(AllFeatureCols, 2, 2, 10),                 \* everybody churns
     ChurnTable(AllFeatureCols, 3, 1, 10),                 \* too few rows to split
     ChurnTable(AllFeatureCols \ {"monetary"}, 6, 3, 10)}  \* a column missing

\* Frames handed to predict: the three trained columns, and a wrong set.
PredictInputs ==
    {[cols |-> FeatureCols,
      rows |-> <<[frequency |-> 3, monetary |-> 60, avg_ticket |-> Float(20)]>>],
     [cols |-> <<"recency", "frequency", "monetary">>,
      rows |-> <<[recency |-> 100, frequency |-> 3, monetary |-> 60]>>]}

\* sales_processed.csv: n consecutive days from 2022-01-01 with `perDay`
\* transactions of `amount` each.
SalesTable(cols, n, perDay, amount) ==
    [cols |-> cols,
     rows |-> [i \in 1..(n * perDay) |->
                 [date |-> ToIso(Timestamp((i - 1) \div perDay)),
                  total_amount |-> Some(amount), quantity |-> 1]]]

\* The file with more rows at its end.
WithRows(df, more) == [df EXCEPT !.rows = @ \o more]

\* A row whose date cell is empty, and a row of day k whose amount is empty.
UndatedRow == [date |-> Null, total_amount |-> Some(70), quantity |-> 1]
UnpricedRow(k) == [date |-> ToIso(Timestamp(k)), total_amount |-> Null, quantity |-> 1]

SalesCols == TxCols \cup TemporalCols \cup {"category", "price", "cost", "margin"}

SalesDataSets ==
    {SalesTable(SalesCols, 35, 1, 500),                    \* trains
     WithRows(SalesTable(SalesCols, 30, 2, 100),           \* exactly 30 days
              <<UndatedRow, UnpricedRow(29)>>),
     WithRows(SalesTable(SalesCols, 29, 1, 500),           \* one day short
              <<UndatedRow, UnpricedRow(28)>>),
     SalesTable(SalesCols \ {"quantity"}, 35, 1, 500)}     \* a column missing

NoCall == [who |-> "nobody", op |-> "none", arg |-> None, raised |-> "none",
           value |-> None, names |-> None]

Call(who, op, arg, r) ==
    [who |-> who, op |-> op, arg |-> arg, raised |-> r.raised, value |-> r.value,
     names |-> r.names]

Init ==
    /\ churn = [i \in ChurnIds |-> NewChurnPredictor]
    /\ sales = [i \in SalesIds |-> NewSalesPredictor]
    /\ fs = [p \in Paths |-> None]
    /\ dumped = [p \in Paths |-> None]
    /\ last = NoCall
    /\ cf_df = None /\ cf_out = None
    /\ pp = None /\ raw = None /\ processed = None
    /\ page = None
    /\ pc = None

\* The two classes share no attribute and no file (their data and model
\* paths differ), so a call on one neither enables nor changes a call on the
\* other, and a behaviour of both is an interleaving of a behaviour of each.
\* A run therefore exercises one class: the other is as constructed.
ChurnUnused ==
    /\ churn = [i \in ChurnIds |-> NewChurnPredictor]
    /\ fs[ChurnDataPath] = None /\ fs[ChurnModelPath] = None
    /\ last.who \notin ChurnIds

SalesUnused ==
    /\ sales = [i \in SalesIds |-> NewSalesPredictor]
    /\ fs[SalesDataPath] = None /\ fs[SalesModelPath] = None
    /\ last.who \notin SalesIds

\* The pipeline (or anyone) writes customer_features.csv.
PutChurnData ==
    /\ SalesUnused
    /\ \E d \in ChurnDataSets :
        /\ fs' = [fs EXCEPT ![ChurnDataPath] = d]
        /\ last' = NoCall
        /\ UNCHANGED <<churn, sales, dumped, featureVars, pipelineVars, servingVars, progressVars>>

\* The pipeline (or anyone) writes sales_processed.csv.
PutSalesData ==
    /\ ChurnUnused
    /\ \E d \in SalesDataSets :
        /\ fs' = [fs EXCEPT ![SalesDataPath] = d]
        /\ last' = NoCall
        /\ UNCHANGED <<churn, sales, dumped, featureVars, pipelineVars, servingVars, progressVars>>

\* The instance each artifact was dumped from, as it was when train returned.
Dumped(r, path) == IF r.raised = "none" THEN [dumped EXCEPT ![path] = r.self] ELSE dumped

ChurnTrain(i) ==
    /\ SalesUnused
    /\ \E t \in TestSizes :
        \E grown \in GrowableTrees(fs, churn[i].data_path, t) :
        \E r \in {Churn_train(churn[i], fs, t, grown)} :
            /\ churn' = [churn EXCEPT ![i] = r.self]
            /\ fs' = r.files
            /\ dumped' = Dumped(r, churn[i].model_path)
            /\ last' = Call(i, "train", None, r)
            /\ UNCHANGED <<sales, featureVars, pipelineVars, servingVars, progressVars>>

ChurnLoadModel(i) ==
    /\ SalesUnused
    /\ \E r \in {Churn_load_model(churn[i], fs)} :
        /\ churn' = [churn EXCEPT ![i] = r.self]
        /\ fs' = r.files
        /\ last' = Call(i, "load_model", None, r)
        /\ UNCHANGED <<sales, dumped, featureVars, pipelineVars, servingVars, progressVars>>

ChurnPredict(i) ==
    /\ SalesUnused
    /\ \E X \in PredictInputs :
        \E r \in {Churn_predict(churn[i], X)} :
            /\ churn' = [churn EXCEPT ![i] = r.self]
            /\ last' = Call(i, "predict", X, r)
            /\ UNCHANGED <<sales, fs, dumped, featureVars, pipelineVars, servingVars, progressVars>>

ChurnPredictProbability(i) ==
    /\ SalesUnused
    /\ \E X \in PredictInputs :
        \E r \in {Churn_predict_churn_probability(churn[i], X)} :
            /\ churn' = [churn EXCEPT ![i] = r.self]
            /\ last' = Call(i, "predict_churn_probability", X, r)
            /\ UNCHANGED <<sales, fs, dumped, featureVars, pipelineVars, servingVars, progressVars>>

ChurnGetFeatureImportance(i) ==
    /\ SalesUnused
    /\ \E r \in {Churn_get_feature_importance(churn[i])} :
        /\ churn' = [churn EXCEPT ![i] = r.self]
        /\ last' = Call(i, "get_feature_importance", None, r)
        /\ UNCHANGED <<sales, fs, dumped, featureVars, pipelineVars, servingVars, progressVars>>

SalesTrain(i) ==
    /\ ChurnUnused
    /\ \E r \in {Sales_train(sales[i], fs)} :
        /\ sales' = [sales EXCEPT ![i] = r.self]
        /\ fs' = r.files
        /\ dumped' = Dumped(r, sales[i].model_path)
        /\ last' = Call(i, "train", None, r)
        /\ UNCHANGED <<churn, featureVars, pipelineVars, servingVars, progressVars>>

SalesLoadModel(i) ==
    /\ ChurnUnused
    /\ \E r \in {Sales_load_model(sales[i], fs)} :
        /\ sales' = [sales EXCEPT ![i] = r.self]
        /\ fs' = r.files
        /\ last' = Call(i, "load_model", None, r)
        /\ UNCHANGED <<churn, dumped, featureVars, pipelineVars, servingVars, progressVars>>

SalesPredictNextDays(i) ==
    /\ ChurnUnused
    /\ \E n \in 0..MaxDays, u \in Draws :
        \E r \in {Sales_predict_next_days(sales[i], n, u)} :
            /\ sales' = [sales EXCEPT ![i] = r.self]
            /\ last' = Call(i, "predict_next_days", Some(n), r)
            /\ UNCHANGED <<churn, fs, dumped, featureVars, pipelineVars, servingVars, progressVars>>

SalesGetTomorrowPrediction(i) ==
    /\ ChurnUnused
    /\ \E u \in Draws :
        \E r \in {Sales_get_tomorrow_prediction(sales[i], u)} :
            /\ sales' = [sales EXCEPT ![i] = r.self]
            /\ last' = Call(i, "get_tomorrow_prediction", None, r)
            /\ UNCHANGED <<churn, fs, dumped, featureVars, pipelineVars, servingVars, progressVars>>

Next ==
    \/ PutChurnData
    \/ PutSalesData
    \/ \E i \in ChurnIds :
        \/ ChurnTrain(i)
        \/ ChurnLoadModel(i)
        \/ ChurnPredict(i)
        \/ ChurnPredictProbability(i)
        \/ ChurnGetFeatureImportance(i)
    \/ \E i \in SalesIds :
        \/ SalesTrain(i)
        \/ SalesLoadModel(i)
        \/ SalesPredictNextDays(i)
        \/ SalesGetTomorrowPrediction(i)

Spec == Init /\ [][Next]_vars

NextFeatures == CreateFeatures

SpecFeatures == InitFeatures /\ [][NextFeatures]_vars

NextPipeline ==
    \/ LoadData
    \/ PreprocessTransactions
    \/ CreateCustomerFeatures
    \/ SaveData
    \/ RunPipeline

SpecPipeline == InitPipeline /\ [][NextPipeline]_vars

(***************************************************************************)
(* The churn page (app/pages/2_Churn.py): one run of the script per         *)
(* interaction                                                             *)
(***************************************************************************)
REQUIRED_FEATURES == <<"frequency", "monetary", "avg_ticket">>

PageRequiredCols == {"customer_id", "recency", "frequency", "monetary"}

\* st.slider(min_value=0, max_value=100, value=70, step=1)
SliderDefault == 70

\* A fitted booster, as the artifact holds it: a base margin and trees of one
\* split each (Stump).
Booster(base_margin, trees) ==
    [feature_names |-> REQUIRED_FEATURES, base_margin |-> base_margin,
     trees |-> trees]

\* The leaf value of a tree for a feature row (avg_ticket is a Frac, the
\* other features are integers).
Leaf(tree, x) ==
    LET below == IF tree.feature = "avg_ticket"
                 THEN x.avg_ticket.n < tree.split * x.avg_ticket.d
                 ELSE x[tree.feature] < tree.split
    IN  IF below THEN tree.left ELSE tree.right

\* The raw output of the booster for a row: base margin plus the leaves.
RawMargin(booster, x) ==
    booster.base_margin
        + SeqSum([t \in DOMAIN booster.trees |-> Leaf(booster.trees[t], x)])

\* 1 / (1 + exp(-m)) in millionths at the margins -4..4, as float32 rounds
\* it; from 17 on, 1 + exp(-m) is 1 in float32 and the result is 1.0.
SigmoidTable ==
    <<17986, 47426, 119203, 268941, 500000, 731059, 880797, 952574, 982014>>

Sigmoid(m) == IF m >= 17 THEN 1000000 ELSE SigmoidTable[m + 5]

\* model.predict_proba(features)[:, 1]: the probability of class 1 per row,
\* in millionths; ValueError when the columns are not the training columns.
PredictProba(model, X) ==
    IF model.fitted = None THEN [raised |-> "NotFittedError", value |-> None]
    ELSE IF X.cols # model.fitted.feature_names
    THEN [raised |-> "ValueError", value |-> None]
    ELSE [raised |-> "none",
          value |-> [i \in DOMAIN X.rows |-> Sigmoid(RawMargin(model.fitted, X.rows[i]))]]

\* shap.TreeExplainer(model): model_output is "raw" by default, the margin
\* of the booster.  The expected value of a tree is the cover-weighted mean
\* of its leaves.
TreeExpected(tree) ==
    (tree.cover_left * tree.left + tree.cover_right * tree.right)
        \div (tree.cover_left + tree.cover_right)

\* explainer.expected_value
ExpectedValue(model) ==
    model.fitted.base_margin
        + SeqSum([t \in DOMAIN model.fitted.trees |->
                     TreeExpected(model.fitted.trees[t])])

\* explainer.shap_values(row): per feature, over the trees that split on
\* it, the leaf the row falls in minus the tree's expected value.
ShapValues(model, x) ==
    [f \in DOMAIN model.fitted.feature_names |->
        SeqSum([t \in DOMAIN model.fitted.trees |->
                   LET tree == model.fitted.trees[t]
                   IN  IF tree.feature = model.fitted.feature_names[f]
                       THEN Leaf(tree, x) - TreeExpected(tree)
                       ELSE 0])]

\* Series.replace(0, pd.NA), one element
ReplaceZeroByNA(frequency) == IF frequency = 0 THEN Null ELSE Some(frequency)

\* Series / Series, one element: a missing divisor gives a missing quotient.
DivideByCell(monetary, cell) ==
    IF IsNull(cell) THEN Null ELSE Some(TrueDiv(monetary, cell.v))

\* Series.fillna(value), one element
FillNa(cell, value) == IF IsNull(cell) THEN value ELSE cell.v

\* The quotient with its missing values left in.
PageAvgTicketUnfilled(monetary, frequency) ==
    FillNa(DivideByCell(monetary, ReplaceZeroByNA(frequency)), NaN)

\* frequency_safe = data["frequency"].replace(0, pd.NA)
\* data["avg_ticket"] = (data["monetary"] / frequency_safe).fillna(0)
PageAvgTicket(monetary, frequency) ==
    LET frequency_safe == ReplaceZeroByNA(frequency)
    IN  FillNa(DivideByCell(monetary, frequency_safe), Zero)

\* features = data[REQUIRED_FEATURES].copy(), after avg_ticket was added
PageFeatures(data) ==
    [cols |-> REQUIRED_FEATURES,
     rows |-> [i \in DOMAIN data.rows |->
                 [frequency |-> data.rows[i].frequency,
                  monetary |-> data.rows[i].monetary,
                  avg_ticket |-> PageAvgTicket(data.rows[i].monetary,
                                               data.rows[i].frequency)]]]

\* data["avg_ticket"] = ...; data["Churn_Probability"] = churn_proba
Scored(data, features, churn_proba) ==
    [cols |-> data.cols \cup {"avg_ticket", "Churn_Probability"},
     rows |-> [i \in DOMAIN data.rows |->
                 [customer_id |-> data.rows[i].customer_id,
                  recency |-> data.rows[i].recency,
                  frequency |-> data.rows[i].frequency,
                  monetary |-> data.rows[i].monetary,
                  avg_ticket |-> features.rows[i].avg_ticket,
                  Churn_Probability |-> churn_proba[i]]]]

\* data[data["Churn_Probability"] >= threshold]
AtRiskInclusive(rows, threshold_pct) ==
    SelectSeq(rows, LAMBDA r : r.Churn_Probability * 100 >= threshold_pct * 1000000)

\* data[data["Churn_Probability"] > threshold], threshold = threshold_pct / 100
\* and the probability in millionths.
AtRisk(rows, threshold_pct) ==
    SelectSeq(rows, LAMBDA r : r.Churn_Probability * 100 > threshold_pct * 1000000)

\* sort_values(by="Churn_Probability", ascending=False): the default sort is
\* not stable, rows of equal probability come in any order.
SortedDescending(rows) ==
    {[i \in DOMAIN rows |-> rows[o[i]]] :
        o \in {q \in Permutations(DOMAIN rows) :
                  \A i, j \in DOMAIN rows :
                      i < j => rows[q[i]].Churn_Probability
                                  >= rows[q[j]].Churn_Probability}}

\* sorted(risk_df["customer_id"].unique())
CustomerList(risk_df) == SortedSeq({risk_df[i].customer_id : i \in DOMAIN risk_df})

\* The run stopped at st.stop().
Stopped(threshold_pct, why) ==
    [stopped |-> why, threshold_pct |-> threshold_pct, choice |-> Null,
     data |-> None, risk_df |-> <<>>, customer_churn_prob |-> None,
     explanation |-> None]

\* The explanation block for the customer the select box holds: the first
\* of customer_list unless the user's choice is in the list.
Explained(model, data, features, churn_proba, risk_df, threshold_pct, choice) ==
    IF DOMAIN risk_df = {}
    THEN [stopped |-> "no", threshold_pct |-> threshold_pct, choice |-> Null,
          data |-> data, risk_df |-> risk_df, customer_churn_prob |-> None,
          explanation |-> None]
    ELSE LET customer_list == CustomerList(risk_df)
             selected_customer_id ==
                 IF ~ IsNull(choice) /\ choice.v \in Range(customer_list)
                 THEN choice.v ELSE customer_list[1]
             customer_idx ==
                 CHOOSE i \in DOMAIN data.rows :
                     /\ data.rows[i].customer_id = selected_customer_id
                     /\ \A j \in DOMAIN data.rows :
                           data.rows[j].customer_id = selected_customer_id => i <= j
             customer_features == features.rows[customer_idx]
         IN  [stopped |-> "no", threshold_pct |-> threshold_pct,
              choice |-> Some(selected_customer_id),
              data |-> data, risk_df |-> risk_df,
              customer_churn_prob |-> Some(churn_proba[customer_idx]),
              explanation |->
                  [values |-> ShapValues(model, customer_features),
                   base_values |-> ExpectedValue(model),
                   data |-> customer_features,
                   feature_names |-> REQUIRED_FEATURES]]

\* The results one run of the script can end with, for the slider at
\* threshold_pct and the select box at choice.
PageRuns(files, threshold_pct, choice) ==
    IF files[ChurnDataPath] = None \/ files[ChurnModelPath] = None
    THEN {Stopped(threshold_pct, "load")}
    ELSE LET model == PickleLoad(files[ChurnModelPath])
             loaded == files[ChurnDataPath]
         IN  IF ~ (PageRequiredCols \subseteq loaded.cols)
             THEN {Stopped(threshold_pct, "missing columns")}
             ELSE LET features == PageFeatures(loaded)
                      p == PredictProba(model, features)
                  IN  IF p.raised # "none"
                      THEN {Stopped(threshold_pct, "predict")}
                      ELSE LET data == Scored(loaded, features, p.value)
                           IN  {Explained(model, data, features, p.value, risk_df,
                                          threshold_pct, choice) :
                                  risk_df \in SortedDescending(
                                                 AtRisk(data.rows, threshold_pct))}

\* customer_features.csv as the page reads it: up to MaxCustomers customers,
\* each of one of three kinds.
MaxCustomers == 3

CustomerKinds ==
    {[frequency |-> 1, monetary |-> 30],
     [frequency |-> 3, monetary |-> 90],
     [frequency |-> 3, monetary |-> 30]}

ServedTable(cols, kinds) ==
    [cols |-> cols,
     rows |-> [i \in DOMAIN kinds |->
                 [customer_id |-> i, recency |-> 100,
                  frequency |-> kinds[i].frequency,
                  monetary |-> kinds[i].monetary]]]

ServedData ==
    {ServedTable(AllFeatureCols, k) :
        k \in SeqsUpTo(CustomerKinds, MaxCustomers) \ {<<>>}}
    \cup {ServedTable(AllFeatureCols \ {"monetary"}, <<[frequency |-> 1, monetary |-> 30]>>)}

\* churn_model.pkl: fitted classifiers.
ServedModel(booster) == [NewXGBClassifier(RandomState) EXCEPT !.fitted = booster]

ServedModels ==
    {ServedModel(Booster(0, <<Stump("frequency", 2, 1, -1),
                              Stump("monetary", 50, 1, -1)>>)),
     ServedModel(Booster(1, <<Stump("frequency", 2, 2, 0),
                              Stump("avg_ticket", 20, 1, -1)>>)),
     ServedModel(Booster(0, <<Stump("frequency", 2, 20, -2)>>))}

\* Positions of the slider the user moves it to.
ThresholdPcts == {0, 11, 12, 50, 70, 88, 100}

InitServing ==
    /\ fs \in {[p \in Paths |->
                  IF p = ChurnDataPath THEN d
                  ELSE IF p = ChurnModelPath THEN PickleDump(m)
                  ELSE None] : d \in ServedData, m \in ServedModels}
    /\ page = None
    /\ pc = None
    /\ cf_df = None /\ cf_out = None
    /\ pp = None /\ raw = None /\ processed = None
    /\ churn = None /\ sales = None /\ dumped = None /\ last = None

\* The page is opened: the widgets hold their defaults.
OpenPage ==
    /\ page = None
    /\ page' \in PageRuns(fs, SliderDefault, Null)
    /\ UNCHANGED <<featureVars, pipelineVars, modelVars, progressVars>>

\* The user moves the slider: the script runs again.
SetThreshold ==
    /\ page # None
    /\ \E t \in ThresholdPcts :
        /\ t # page.threshold_pct
        /\ page' \in PageRuns(fs, t, page.choice)
    /\ UNCHANGED <<featureVars, pipelineVars, modelVars, progressVars>>

\* The user picks a customer of the select box: the script runs again.
SelectCustomer ==
    /\ page # None
    /\ page.stopped = "no"
    /\ \E c \in Range(CustomerList(page.risk_df)) :
        /\ Some(c) # page.choice
        /\ page' \in PageRuns(fs, page.threshold_pct, Some(c))
    /\ UNCHANGED <<featureVars, pipelineVars, modelVars, progressVars>>

NextServing ==
    \/ OpenPage
    \/ SetThreshold
    \/ SelectCustomer

SpecServing == InitServing /\ [][NextServing]_vars

(***************************************************************************)
(* Properties                                                              *)
(***************************************************************************)
ChurnInference == {"predict", "predict_churn_probability", "get_feature_importance"}
SalesInference == {"predict_next_days", "get_tomorrow_prediction"}

\* C1: an inference call on a predictor whose model is unset raises the
\* state error (RuntimeError) and returns nothing: predict,
\* predict_churn_probability and get_feature_importance of ChurnPredictor,
\* predict_next_days and get_tomorrow_prediction of SalesTimeSeriesPredictor.
C1_UntrainedInferenceRaises ==
    /\ \A i \in ChurnIds :
        (last.who = i /\ last.op \in ChurnInference /\ churn[i].model = None)
            => (last.raised = "RuntimeError" /\ last.value = None)
    /\ \A i \in SalesIds :
        (last.who = i /\ last.op \in SalesInference /\ sales[i].model = None)
            => (last.raised = "RuntimeError" /\ last.value = None)

\* An instance whose train stopped at the split (feature_names set, model
\* unset) was asked for a probability.
C1_Witness ==
    /\ last.who \in ChurnIds
    /\ last.op = "predict_churn_probability"
    /\ churn[last.who].model = None
    /\ churn[last.who].feature_names # None
    /\ last.raised = "RuntimeError"

\* An instance is usable when it holds a fitted model.
Usable(inst) == inst.model # None /\ inst.model.fitted # None

\* A ChurnPredictor has reached Trained when a train returned (metrics are
\* assigned after the fit) and Loaded when it holds a model without ever
\* having split a table (train assigns X_test before the model).
ChurnReady(c) == Usable(c) /\ (c.metrics # EmptyMetrics \/ c.X_test = None)

\* C2: there is no Trained -> Untrained transition: an instance that has
\* reached Trained or Loaded holds a fitted model after every call, failing
\* calls included.
C2_NoTrainedToUntrained ==
    [][/\ \A i \in ChurnIds : ChurnReady(churn[i]) => Usable(churn'[i])
       /\ \A i \in SalesIds : Usable(sales[i]) => Usable(sales'[i])]_vars

\* C3: after load_model returned, predict and predict_churn_probability on
\* the loading instance give, for every input frame, what the instance that
\* wrote the artifact gave when its train returned.
C3_ReloadRoundTrip ==
    \A j \in ChurnIds :
        (last.who = j /\ last.op = "load_model" /\ last.raised = "none") =>
            \A X \in PredictInputs :
                LET trainer == dumped[ChurnModelPath]
                IN  /\ Churn_predict(churn[j], X).raised
                          = Churn_predict(trainer, X).raised
                    /\ Churn_predict(churn[j], X).value
                          = Churn_predict(trainer, X).value
                    /\ Churn_predict_churn_probability(churn[j], X).raised
                          = Churn_predict_churn_probability(trainer, X).raised
                    /\ Churn_predict_churn_probability(churn[j], X).value
                          = Churn_predict_churn_probability(trainer, X).value

\* An instance that never trained has loaded the artifact and predicts.
C3_Witness ==
    /\ last.who \in ChurnIds
    /\ last.op = "load_model" /\ last.raised = "none"
    /\ churn[last.who].X_test = None
    /\ \E X \in PredictInputs : Churn_predict(churn[last.who], X).raised = "none"

PredictorIds == ChurnIds \cup SalesIds

ModelPathOf(i) == IF i \in ChurnIds THEN churn[i].model_path ELSE sales[i].model_path

\* C4: load_model on a path that holds no artifact raises FileNotFoundError
\* naming that path, and the step changes no instance (model, feature names,
\* metrics, retained data) and no file.
C4_LoadMissingArtifact ==
    [][(/\ last'.op = "load_model"
        /\ last'.who \in PredictorIds
        /\ fs[ModelPathOf(last'.who)] = None)
       => (/\ last'.raised = "FileNotFoundError"
           /\ last'.names = ModelPathOf(last'.who)
           /\ churn' = churn /\ sales' = sales /\ fs' = fs)]_vars

\* load_model failed on an instance that holds a model (its train stopped
\* after the fit, before the dump).
C4_Witness ==
    /\ last.who \in ChurnIds
    /\ last.op = "load_model" /\ last.raised = "FileNotFoundError"
    /\ churn[last.who].model # None

TrainReturned(i) == last.who = i /\ last.op = "train" /\ last.raised = "none"

C6_FeatureNames ==
    \A i \in ChurnIds :
        /\ \/ churn[i].feature_names = None
           \/ churn[i].feature_names = <<"frequency", "monetary", "avg_ticket">>
        /\ churn[i].feature_names # None
               => "recency" \notin Range(churn[i].feature_names)
        /\ churn[i].model # None
               => /\ churn[i].feature_names # None
                  /\ churn[i].feature_names = <<"frequency", "monetary", "avg_ticket">>

\* An instance that never trained holds a loaded model.
C6_Witness ==
    \E i \in ChurnIds :
        /\ churn[i].model # None /\ churn[i].model.fitted # None
        /\ churn[i].X_test = None
        /\ churn[i].feature_names = FeatureCols

FeaturesBuilt == cf_out # None /\ cf_out.raised = "none"

\* C7: is_churn is 1 exactly when recency > 90 and 0 otherwise (90 gives 0,
\* 91 gives 1), and two rows with the same recency get the same label
\* whatever their other columns hold.
C7_LabelIsRecencyOver90 ==
    FeaturesBuilt =>
        /\ \A i \in DOMAIN cf_df.rows :
            /\ cf_out.y[i] \in {0, 1}
            /\ cf_out.y[i] = 1 <=> cf_df.rows[i].recency > 90
            /\ cf_df.rows[i].recency = 90 => cf_out.y[i] = 0
            /\ cf_df.rows[i].recency = 91 => cf_out.y[i] = 1
        /\ \A i, j \in DOMAIN cf_df.rows :
            cf_df.rows[i].recency = cf_df.rows[j].recency
                => cf_out.y[i] = cf_out.y[j]

\* A table with a row at recency 90 and a row at recency 91 was labelled.
C7_Witness ==
    /\ FeaturesBuilt
    /\ \E i, j \in DOMAIN cf_df.rows :
        /\ cf_df.rows[i].recency = 90 /\ cf_df.rows[j].recency = 91
        /\ cf_df.rows[i].monetary # cf_df.rows[j].monetary

\* The day number of a transaction of the input table.
TxDay(r) == ToDatetime(r.date).ts

\* The input table's rows of one customer.
TxOf(c) == SelectSeq(raw.transactions.rows, LAMBDA r : r.customer_id = c)

FeaturesCreated == pp.customer_features # None

\* C8: for every customer of the output of create_customer_features,
\* recency is the number of days from that customer's latest transaction to
\* the latest transaction of the whole table; it is >= 0 and some customer
\* has recency 0.
C8_RecencyAgainstTableMax ==
    FeaturesCreated =>
        LET tx == raw.transactions.rows
            table_max == SetMax({TxDay(tx[i]) : i \in DOMAIN tx})
            latest(c) == SetMax({TxDay(TxOf(c)[i]) : i \in DOMAIN TxOf(c)})
            out == pp.customer_features.rows
        IN  /\ \A k \in DOMAIN out :
                /\ out[k].recency = table_max - latest(out[k].customer_id)
                /\ out[k].recency >= 0
            /\ \E k \in DOMAIN out : out[k].recency = 0

\* A customer last seen 100 days before the table's last day, whose first
\* transaction is older than the last one of the table.
C8_Witness ==
    /\ FeaturesCreated
    /\ \E k, m \in DOMAIN pp.customer_features.rows :
        /\ pp.customer_features.rows[k].recency = 100
        /\ pp.customer_features.rows[m].recency = 0
        /\ Len(TxOf(pp.customer_features.rows[m].customer_id)) > 1

\* C9: for every customer of the output of create_customer_features,
\* frequency is the number of that customer's transactions in the input
\* table and is >= 1, and monetary is the sum of their total_amount.
C9_FrequencyCountsTransactions ==
    FeaturesCreated =>
        \A k \in DOMAIN pp.customer_features.rows :
            LET f == pp.customer_features.rows[k]
                g == TxOf(f.customer_id)
            IN  /\ f.frequency = Len(g)
                /\ f.frequency >= 1
                /\ f.monetary = SeqSum([i \in DOMAIN g |-> g[i].total_amount])

\* C10: avg_ticket is monetary / frequency on every row with frequency > 0
\* and exactly 0 on every row with frequency = 0; building the features
\* of a table that has the columns raises nothing and gives no inf or nan.
C10_AvgTicket ==
    (cf_out # None /\ {"recency", "frequency", "monetary"} \subseteq cf_df.cols) =>
        /\ cf_out.raised = "none"
        /\ \A i \in DOMAIN cf_df.rows :
            LET r == cf_df.rows[i]
                a == cf_out.X[i].avg_ticket
            IN  /\ a.k = "num" /\ a.d > 0
                /\ r.frequency > 0 => a.n * r.frequency = r.monetary * a.d
                /\ r.frequency = 0 => a = Zero

\* A row with frequency 0 and money spent, next to a row whose quotient is
\* not an integer.
C10_Witness ==
    /\ FeaturesBuilt
    /\ \E i, j \in DOMAIN cf_df.rows :
        /\ cf_df.rows[i].frequency = 0 /\ cf_df.rows[i].monetary > 0
        /\ cf_df.rows[j].frequency = 3 /\ cf_df.rows[j].monetary = 10

\* The customers that have a transaction in the input table.
Buyers == {raw.transactions.rows[i].customer_id : i \in DOMAIN raw.transactions.rows}

\* The customers listed in the metadata table.
Listed == {raw.customers.rows[i].customer_id : i \in DOMAIN raw.customers.rows}

\* C11: whatever the customers metadata table, the customer feature table
\* has exactly one row per customer with a transaction and no other row;
\* each row carries the RFM values of its customer, and a customer absent
\* from the metadata has a null segment.
C11_OneRowPerCustomer ==
    FeaturesCreated =>
        LET out == pp.customer_features.rows
            rfm == Rfm(pp.sales_processed)
        IN  /\ \A c \in Buyers :
                Cardinality({k \in DOMAIN out : out[k].customer_id = c}) = 1
            /\ \A k \in DOMAIN out : out[k].customer_id \in Buyers
            /\ Len(out) = Len(rfm)
            /\ \A k \in DOMAIN out :
                /\ out[k].customer_id \notin Listed => IsNull(out[k].segment)
                /\ \E j \in DOMAIN rfm :
                    /\ rfm[j].customer_id = out[k].customer_id
                    /\ rfm[j].recency = out[k].recency
                    /\ rfm[j].frequency = out[k].frequency
                    /\ rfm[j].monetary = out[k].monetary

PreprocessReturned ==
    pp.sales_processed # None /\ "margin" \in pp.sales_processed.cols

C13_InputsNotMutated ==
    pp.sales_processed # None =>
        /\ pp.transactions = PP_load_data(NewPreprocessor, raw).self.transactions
        /\ pp.customers = PP_load_data(NewPreprocessor, raw).self.customers
        /\ pp.products = PP_load_data(NewPreprocessor, raw).self.products

\* The columns the raw files are to have.
RequiredCols ==
    [customers |-> {"customer_id", "segment"},
     products |-> {"id", "category", "price", "cost"},
     transactions |-> TxCols]

MissingCols ==
    UNION {RequiredCols[t] \ raw[t].cols : t \in DOMAIN RequiredCols}

\* C14: run_pipeline on a new instance whose raw files lack a required
\* column raises an error naming the missing columns, and the run neither
\* produces a derived table nor writes one.
C14_MissingColumnFailsFast ==
    [][(/\ pp = NewPreprocessor
        /\ last'.op = "run_pipeline"
        /\ MissingCols # {})
       => (/\ last'.raised = "KeyError"
           /\ last'.names = MissingCols
           /\ pp'.sales_processed = None
           /\ pp'.customer_features = None
           /\ processed' = processed)]_vars

(***************************************************************************)
(* Sales forecaster                                                        *)
(***************************************************************************)
\* The calendar dates sales_processed.csv holds.
SalesDates(df) == {df.rows[k].date : k \in {j \in DOMAIN df.rows : ~ IsNull(df.rows[j].date)}}

\* The total of the amounts the file holds for one date.
RECURSIVE AmountOn(_, _, _)
AmountOn(df, d, k) ==
    IF k = 0 THEN 0
    ELSE AmountOn(df, d, k - 1)
         + (IF ~ IsNull(df.rows[k].date) /\ df.rows[k].date = d
               /\ ~ IsNull(df.rows[k].total_amount)
            THEN df.rows[k].total_amount.v ELSE 0)

\* The step is a call of train on forecaster i over a readable data file.
SalesTrainStep(i) ==
    /\ last'.who = i /\ last'.op = "train"
    /\ fs[SalesDataPath] # None
    /\ SalesRequiredCols \subseteq fs[SalesDataPath].cols

\* C15: train aggregates total_amount to one row per calendar date (rows
\* without a date left out), raises ValueError exactly when fewer than 30
\* distinct days remain, and accepts 30; when it raises ValueError the
\* instance's model is the one it had and no file is written.
C15_TrainNeedsThirtyDays ==
    [][\A i \in SalesIds :
        SalesTrainStep(i) =>
            LET df == fs[SalesDataPath]
                series == sales'[i].df_train
            IN  /\ Len(series) = Cardinality(SalesDates(df))
                /\ \A k \in DOMAIN series :
                      /\ ToIso(series[k].ds) \in SalesDates(df)
                      /\ series[k].y = Some(AmountOn(df, ToIso(series[k].ds), Len(df.rows)))
                      /\ k > 1 => series[k - 1].ds.ts < series[k].ds.ts
                /\ (last'.raised = "ValueError") <=> (Cardinality(SalesDates(df)) < 30)
                /\ (Cardinality(SalesDates(df)) >= 30) =>
                      /\ last'.raised = "none"
                      /\ sales'[i].model # None
                      /\ sales'[i].model.fitted # None
                      /\ sales'[i].model.fitted.history = series
                      /\ fs'[SalesModelPath] = PickleDump(sales'[i].model)
                /\ (last'.raised = "ValueError") =>
                      /\ sales'[i].model = sales[i].model
                      /\ fs' = fs]_<<last.who, last.op, last.raised, vars>>

\* A train over 29 days has raised ValueError on a forecaster without a model
\* and without an artifact on disk.
C15_Witness ==
    \E i \in SalesIds :
        /\ last.who = i /\ last.op = "train" /\ last.raised = "ValueError"
        /\ sales[i].model = None
        /\ fs[SalesModelPath] = None
        /\ fs[SalesDataPath] # None
        /\ Cardinality(SalesDates(fs[SalesDataPath])) = 29

\* Forecaster i returned from predict_next_days without raising.
PredictedNextDays(i) ==
    /\ last.who = i /\ last.op = "predict_next_days" /\ last.raised = "none"

\* The last date of the series the model of forecaster i was fitted on.
LastTrainingDay(i) ==
    LET h == sales[i].model.fitted.history
    IN  CHOOSE d \in {h[k].ds.ts : k \in DOMAIN h} :
            \A k \in DOMAIN h : h[k].ds.ts <= d

\* Forecaster i holds the model its own train fitted, and the series of that
\* train.
FreshlyTrained(i) ==
    /\ sales[i].model # None
    /\ sales[i].df_train # None
    /\ sales[i].model.fitted # None
    /\ sales[i].model.fitted.history = sales[i].df_train

\* Forecaster i holds a model read from the artifact and no training series.
Reloaded(i) ==
    /\ sales[i].model # None
    /\ sales[i].df_train = None

\* C16: predict_next_days(n) on a freshly trained forecaster returns exactly
\* n rows, the k-th of them dated k days after the last training date.
C16_NextDaysAfterTraining ==
    \A i \in SalesIds :
        (PredictedNextDays(i) /\ FreshlyTrained(i)) =>
            /\ Len(last.value) = last.arg.v
            /\ \A k \in DOMAIN last.value :
                  last.value[k].ds = Timestamp(LastTrainingDay(i) + k)

\* A freshly trained forecaster has answered predict_next_days(2).
C16_Witness ==
    \E i \in SalesIds :
        /\ PredictedNextDays(i) /\ FreshlyTrained(i)
        /\ last.arg = Some(2)
        /\ Len(last.value) = 2

\* The dates and point forecasts of a returned frame.
Points(frame) == [k \in DOMAIN frame |-> [ds |-> frame[k].ds, yhat |-> frame[k].yhat]]

\* C17: on a reloaded forecaster predict_next_days(n) returns the last n
\* rows of the forecast, which are the rows (dates ascending, same point
\* forecasts) the Trained instance holding the same model returns by keeping
\* the dates after its last training date.
C17_ReloadedTailIsTrainedFilter ==
    \A i \in SalesIds :
        (PredictedNextDays(i) /\ Reloaded(i)) =>
            LET n == last.arg.v
                trained == [sales[i] EXCEPT !.df_train = sales[i].model.fitted.history]
            IN  /\ Len(last.value) = n
                /\ \A k \in DOMAIN last.value :
                      last.value[k].ds = Timestamp(LastTrainingDay(i) + k)
                /\ \A u \in Draws :
                      Points(last.value)
                          = Points(Sales_predict_next_days(trained, n, u).value)

\* A reloaded forecaster has answered predict_next_days(2).
C17_Witness ==
    \E i \in SalesIds :
        /\ PredictedNextDays(i) /\ Reloaded(i)
        /\ last.arg = Some(2)
        /\ Len(last.value) = 2

\* C18: in every state where get_tomorrow_prediction and predict_next_days(1)
\* both succeed, predict_next_days(1) returns one row and the record of
\* get_tomorrow_prediction has that row's date, point forecast, lower and
\* upper bound.
C18_TomorrowIsNextDaysOfOne ==
    \A i \in SalesIds : \A u, v \in Draws :
        LET t == Sales_get_tomorrow_prediction(sales[i], u)
            p == Sales_predict_next_days(sales[i], 1, v)
        IN  (t.raised = "none" /\ p.raised = "none") =>
                /\ Len(p.value) = 1
                /\ t.value.date = p.value[1].ds
                /\ t.value.yhat = p.value[1].yhat
                /\ t.value.yhat_lower = p.value[1].yhat_lower
                /\ t.value.yhat_upper = p.value[1].yhat_upper

(***************************************************************************)
(* Churn page                                                              *)
(***************************************************************************)
\* The page ran through: it holds the scored table and the risk table.
PageRan == page # None /\ page.stopped = "no"

\* C19: the risk table holds exactly the customers whose probability is
\* strictly greater than the threshold, each once, ordered descending by
\* probability; with the threshold at 1.0 it is empty.
C19_RiskFilter ==
    PageRan =>
        LET rows == page.data.rows
            risk == page.risk_df
            over == {i \in DOMAIN rows :
                        rows[i].Churn_Probability * 100 > page.threshold_pct * 1000000}
        IN  /\ Len(risk) = Cardinality(over)
            /\ \A i \in over : \E k \in DOMAIN risk : risk[k] = rows[i]
            /\ \A k \in DOMAIN risk : \E i \in over : risk[k] = rows[i]
            /\ \A k, l \in DOMAIN risk :
                  k < l => risk[k].Churn_Probability >= risk[l].Churn_Probability
            /\ page.threshold_pct = 100 => DOMAIN risk = {}

\* The slider is at 50: a customer at probability 0.5 exactly is left out
\* and two customers over it are listed.
C19_Witness ==
    /\ PageRan
    /\ page.threshold_pct = 50
    /\ \E i \in DOMAIN page.data.rows : page.data.rows[i].Churn_Probability = 500000
    /\ Len(page.risk_df) = 2

\* C20: the attributions of the explained customer and the baseline sum to
\* the customer's predicted churn probability, within 1e-6.
C20_AttributionsSumToProbability ==
    (PageRan /\ page.explanation # None) =>
        LET total == page.explanation.base_values + SeqSum(page.explanation.values)
        IN  Abs(total * 1000000 - page.customer_churn_prob.v) <= 1

\* The two paths a model artifact is written to.
ModelPaths == {ChurnModelPath, SalesModelPath}

\* C22 as claimed: once an artifact is stored at a model path, no call of any
\* predictor changes the content stored there.
C22_ArtifactImmutable ==
    [][\A p \in ModelPaths : fs[p] # None => fs'[p] = fs[p]
      ]_<<last.who, last.op, last.raised, vars>>

\* C27 as claimed: a forecaster that holds a model and a retained series
\* holds the series that model was fitted on, and predict_next_days(n) then
\* returns exactly n rows, all after the model's last training date.
C27_SeriesIsTheModels ==
    \A i \in SalesIds :
        (sales[i].model # None /\ sales[i].df_train # None) =>
            /\ sales[i].model.fitted.history = sales[i].df_train
            /\ PredictedNextDays(i) =>
                  /\ Len(last.value) = last.arg.v
                  /\ \A k \in DOMAIN last.value :
                        last.value[k].ds.ts > LastTrainingDay(i)

\* The step is a train call of churn predictor i that raised.
ChurnTrainFailed(i) ==
    last'.who = i /\ last'.op = "train" /\ last'.raised # "none"

\* C28 as claimed: a ChurnPredictor.train call that raises leaves the
\* instance's model, feature_names, metrics and held test split as they were
\* before the call, so an instance without a model is still without one.
C28_TrainAllOrNothing ==
    [][\A i \in ChurnIds :
        ChurnTrainFailed(i) =>
            /\ churn'[i].model = churn[i].model
            /\ churn'[i].feature_names = churn[i].feature_names
            /\ churn'[i].metrics = churn[i].metrics
            /\ churn'[i].X_test = churn[i].X_test
            /\ churn'[i].y_test = churn[i].y_test
            /\ churn[i].model = None => churn'[i].model = None
      ]_<<last.who, last.op, last.raised, vars>>

\* The customers of table df whose recency is above the churn threshold.
Churners(df) == {k \in DOMAIN df.rows : df.rows[k].recency > ChurnThreshold}

\* A table with all required columns that a stratified split with fraction
\* test_size (percent) cannot cut: no row, a label class with one member, or
\* a part smaller than the number of classes.
TooFewToSplit(df, test_size) ==
    LET n == Len(df.rows)
        gone == Cardinality(Churners(df))
        classes == (IF gone > 0 THEN 1 ELSE 0) + (IF n - gone > 0 THEN 1 ELSE 0)
    IN  \/ n = 0
        \/ gone = 1
        \/ n - gone = 1
        \/ NTest(n, test_size) < classes
        \/ n - NTest(n, test_size) < classes

\* C25: ChurnPredictor.train on a table that misses a required column raises
\* KeyError, and on a table too small for the stratified 20% split raises
\* ValueError; in both cases the instance's model is the one it had (none is
\* fitted) and no file is written.
C25_TrainDataErrors ==
    [][\A i \in ChurnIds :
        (last'.who = i /\ last'.op = "train" /\ fs[ChurnDataPath] # None) =>
            LET df == fs[ChurnDataPath]
                missing == ~ (ChurnRequiredCols \subseteq df.cols)
            IN  /\ missing => last'.raised = "KeyError"
                /\ (~ missing /\ \E t \in TestSizes : TooFewToSplit(df, t)) =>
                      last'.raised = "ValueError"
                /\ (missing \/ \E t \in TestSizes : TooFewToSplit(df, t)) =>
                      /\ churn'[i].model = churn[i].model
                      /\ churn'[i].metrics = churn[i].metrics
                      /\ fs' = fs
      ]_<<last.who, last.op, last.raised, vars>>

\* A train on the three-customer table with one churner has raised ValueError
\* and the instance still has no model, and no artifact was written.
C25_Witness ==
    \E i \in ChurnIds :
        /\ last.who = i /\ last.op = "train" /\ last.raised = "ValueError"
        /\ fs[ChurnDataPath] # None
        /\ ChurnRequiredCols \subseteq fs[ChurnDataPath].cols
        /\ Len(fs[ChurnDataPath].rows) = 3
        /\ Cardinality(Churners(fs[ChurnDataPath])) = 1
        /\ churn[i].model = None
        /\ fs[ChurnModelPath] = None

\* Churn predictor c is in the Trained state: it holds the classifier its own
\* train fitted and measured.
ChurnTrained(c) ==
    /\ Usable(c)
    /\ c.metrics # EmptyMetrics
    /\ c.metrics.model = c.model.fitted

\* The step of a train call of predictor i.
TrainStep(i) == last'.who = i /\ last'.op = "train"

ChurnInferenceStep(i) == last'.who = i /\ last'.op \in ChurnInference
SalesInferenceStep(i) == last'.who = i /\ last'.op \in SalesInference

\* The step leaves every predictor instance and every file as it was.
NothingRetainedChanges ==
    /\ \A i \in ChurnIds :
          /\ churn'[i].model = churn[i].model
          /\ churn'[i].feature_names = churn[i].feature_names
          /\ churn'[i].metrics = churn[i].metrics
          /\ churn'[i].X_test = churn[i].X_test
          /\ churn'[i].y_test = churn[i].y_test
    /\ \A i \in SalesIds :
          /\ sales'[i].model = sales[i].model
          /\ sales'[i].df_train = sales[i].df_train
    /\ fs' = fs

\* The churn call just made, made once more in the state it left.
ChurnAgain(i) ==
    CASE last'.op = "predict" -> Churn_predict(churn'[i], last'.arg)
      [] last'.op = "predict_churn_probability" ->
            Churn_predict_churn_probability(churn'[i], last'.arg)
      [] OTHER -> Churn_get_feature_importance(churn'[i])

\* The forecast call just made, made once more in the state it left, with
\* interval sampling draw u.
SalesAgain(i, u) ==
    IF last'.op = "predict_next_days"
    THEN Sales_predict_next_days(sales'[i], last'.arg.v, u)
    ELSE Sales_get_tomorrow_prediction(sales'[i], u)

\* Two forecast results hold the same dates and the same point forecasts.
SamePoints(op, a, b) ==
    IF op = "predict_next_days"
    THEN /\ Len(a) = Len(b)
         /\ \A k \in DOMAIN a : a[k].ds = b[k].ds /\ a[k].yhat = b[k].yhat
    ELSE a.date = b.date /\ a.yhat = b.yhat

\* C24 as claimed: an inference call changes nothing the instance retains
\* and no file, and the same call made again in the same state returns the
\* same result.
C24_InferenceRepeatable ==
    [][/\ \A i \in ChurnIds :
            ChurnInferenceStep(i) =>
                /\ NothingRetainedChanges
                /\ ChurnAgain(i).raised = last'.raised
                /\ ChurnAgain(i).value = last'.value
       /\ \A i \in SalesIds :
            SalesInferenceStep(i) =>
                /\ NothingRetainedChanges
                /\ \A u \in Draws :
                      /\ SalesAgain(i, u).raised = last'.raised
                      /\ last'.raised = "none" =>
                            SalesAgain(i, u).value = last'.value
      ]_<<last.who, last.op, last.raised, vars>>

\* C24, amended: an inference call, returning or raising, changes nothing
\* the instance retains and no file; the same call made again in the same
\* state raises the same error or returns the same result, where for the two
\* forecast calls "the same" covers the dates and the point forecasts: the
\* interval bounds are sampled anew on every call.
C24_InferenceNoSideEffects ==
    [][/\ \A i \in ChurnIds :
            ChurnInferenceStep(i) =>
                /\ NothingRetainedChanges
                /\ ChurnAgain(i).raised = last'.raised
                /\ ChurnAgain(i).value = last'.value
       /\ \A i \in SalesIds :
            SalesInferenceStep(i) =>
                /\ NothingRetainedChanges
                /\ \A u \in Draws :
                      /\ SalesAgain(i, u).raised = last'.raised
                      /\ last'.raised = "none" =>
                            SamePoints(last'.op, SalesAgain(i, u).value, last'.value)
      ]_<<last.who, last.op, last.raised, vars>>

\* A trained forecaster has returned one forecast row whose interval bounds
\* another sampling draw would give differently.
C24_Witness ==
    \E i \in SalesIds :
        /\ PredictedNextDays(i)
        /\ FreshlyTrained(i)
        /\ Len(last.value) = 1
        /\ \E u \in Draws :
              LET again == Sales_predict_next_days(sales[i], 1, u).value
              IN  /\ again[1].yhat = last.value[1].yhat
                  /\ again[1].yhat_lower # last.value[1].yhat_lower

(***************************************************************************)
(* SpecImportance: feature importances of trained and loaded classifiers   *)
(***************************************************************************)
\* customer_features.csv as found by the churn predictors: a table too small
\* for boosting to grow a split, and one large enough.
ImportanceTables ==
    {ChurnTable(AllFeatureCols, 6, 3, 10), ChurnTable(AllFeatureCols, 20, 10, 10)}

InitImportance ==
    /\ churn = [i \in ChurnIds |-> NewChurnPredictor]
    /\ sales = [i \in SalesIds |-> NewSalesPredictor]
    /\ fs \in {[p \in Paths |-> IF p = ChurnDataPath THEN d ELSE None] :
                  d \in ImportanceTables}
    /\ dumped = [p \in Paths |-> None]
    /\ last = NoCall
    /\ cf_df = None /\ cf_out = None
    /\ pp = None /\ raw = None /\ processed = None
    /\ page = None
    /\ pc = None

NextImportance ==
    \E i \in ChurnIds :
        \/ ChurnTrain(i)
        \/ ChurnLoadModel(i)
        \/ ChurnGetFeatureImportance(i)

SpecImportance == InitImportance /\ [][NextImportance]_vars

\* Churn predictor i, Trained or Loaded, was just asked for its feature
\* importances.
GotImportance(i) ==
    /\ last.who = i /\ last.op = "get_feature_importance"
    /\ ChurnReady(churn[i])

\* The importance the fitted booster holds for the training column f.
ModelImportance(fitted, f) ==
    XGBFeatureImportances(fitted)[CHOOSE k \in DOMAIN fitted.feature_names :
                                      fitted.feature_names[k] = f]

\* The frame holds each of the three trained feature names once, each with
\* the importance the model holds for it, in descending order of
\* importance, none of them negative.
RankedImportances(i, rows) ==
    /\ Len(rows) = 3
    /\ {rows[k].feature : k \in DOMAIN rows} = Range(FeatureCols)
    /\ \A k \in DOMAIN rows :
          /\ rows[k].importance = ModelImportance(churn[i].model.fitted, rows[k].feature)
          /\ rows[k].importance.k = "num"
          /\ rows[k].importance.n >= 0
    /\ \A k, j \in DOMAIN rows :
          k < j => ~ FloatGreater(rows[j].importance, rows[k].importance)

\* The importances of the frame add up to 1.
SumToOne(rows) ==
    LET dens == [k \in DOMAIN rows |-> rows[k].importance.d]
    IN  SeqSum([k \in DOMAIN rows |->
                   rows[k].importance.n * (SeqProd(dens) \div dens[k])])
            = SeqProd(dens)

\* C23 as claimed: get_feature_importance on a Trained or Loaded predictor
\* returns the three trained feature names once each, paired with the
\* model's importance, in descending order, non-negative and summing to 1.
C23_ImportancesSumToOne ==
    \A i \in ChurnIds :
        GotImportance(i) =>
            /\ last.raised = "none"
            /\ RankedImportances(i, last.value.rows)
            /\ SumToOne(last.value.rows)

\* C23, amended: the three trained feature names once each, paired with the
\* model's importance, in descending order, non-negative; the weights sum
\* to 1 when some tree of the model holds a split, and are all 0 when none
\* does.
C23_ImportancesRanked ==
    \A i \in ChurnIds :
        GotImportance(i) =>
            /\ last.raised = "none"
            /\ RankedImportances(i, last.value.rows)
            /\ IF churn[i].model.fitted.trees = <<>>
               THEN \A k \in DOMAIN last.value.rows :
                        last.value.rows[k].importance = Zero
               ELSE SumToOne(last.value.rows)

\* A predictor that loaded the artifact another one trained was asked for
\* its importances: the model splits on two features, the ranking puts the
\* second training column first, and the third row weighs 0.
C23_Witness ==
    \E i \in ChurnIds :
        /\ GotImportance(i)
        /\ churn[i].X_test = None
        /\ last.raised = "none"
        /\ last.value.rows[1].feature = FeatureCols[2]
        /\ FloatGreater(last.value.rows[1].importance, last.value.rows[2].importance)
        /\ FloatGreater(last.value.rows[2].importance, Zero)
        /\ last.value.rows[3].importance = Zero
        /\ SumToOne(last.value.rows)

\* C26: on every customer table with frequency >= 0 and monetary a number,
\* the avg_ticket the churn page derives (divide by frequency with 0 replaced
\* by missing, fill missing with 0) is, row for row, the avg_ticket
\* _create_features derived for training (monetary / frequency where
\* frequency > 0, else 0).
C26_AvgTicketDerivationsAgree ==
    FeaturesBuilt =>
        LET served == PageFeatures(cf_df).rows
        IN  \A i \in DOMAIN cf_df.rows :
                cf_df.rows[i].frequency >= 0 =>
                    /\ served[i].avg_ticket = cf_out.X[i].avg_ticket
                    /\ served[i].avg_ticket
                          = AvgTicket(cf_df.rows[i].monetary, cf_df.rows[i].frequency)

\* _create_features has run on a table with a customer who bought nothing at
\* a positive amount (frequency 0) and one who bought three times: the page
\* derives 0 for the first and monetary / 3 for the second.
C26_Witness ==
    /\ FeaturesBuilt
    /\ Len(cf_df.rows) = 2
    /\ cf_df.rows[1].frequency = 0 /\ cf_df.rows[1].monetary = 60
    /\ cf_df.rows[2].frequency = 3 /\ cf_df.rows[2].monetary = 10
    /\ PageFeatures(cf_df).rows[1].avg_ticket = Zero
    /\ PageFeatures(cf_df).rows[2].avg_ticket = Frac(10, 3)

(***************************************************************************)
(* SpecConcurrent: train in one process, load_model in another, on the     *)
(* same artifact path                                                      *)
(***************************************************************************)
\* open(path, 'wb') creates the file or cuts it to length 0; pickle.dump
\* writes through the file's buffer, so the bytes reach the file in pieces,
\* the last of them when the with-block closes it.  A file that holds the
\* first `flushed` pieces of an artifact (0: just opened):
Prefix(bytes, flushed) == [truncated |-> flushed, of |-> bytes]

IsComplete(content) == "truncated" \notin DOMAIN content

\* pickle.load(f) on a prefix: EOFError on an empty file, UnpicklingError
\* on one cut short.
PickleLoadError(content) ==
    IF content.truncated = 0 THEN "EOFError" ELSE "UnpicklingError"

\* Where a caller stands: idle, or in train before open / before the dump /
\* before the close (with the bytes it writes), or in load_model before the
\* read.
At(where, bytes) == [at |-> where, bytes |-> bytes]

Writing(i) == pc[i].at \in {"open", "dump", "close"}

InitConcurrent ==
    /\ churn = [i \in ChurnIds |-> NewChurnPredictor]
    /\ sales = [i \in SalesIds |-> NewSalesPredictor]
    /\ fs \in {[p \in Paths |-> IF p = ChurnDataPath THEN d ELSE None] :
                  d \in ChurnDataSets}
    /\ dumped = [p \in Paths |-> None]
    /\ last = NoCall
    /\ pc = [i \in ChurnIds |-> At("idle", None)]
    /\ cf_df = None /\ cf_out = None
    /\ pp = None /\ raw = None /\ processed = None
    /\ page = None

\* train, lines 120-175: the table read, the split, the fit and the
\* metrics.  A failure ends the call; otherwise the dump is still to come.
TrainCompute(i) ==
    /\ pc[i].at = "idle"
    /\ \A j \in ChurnIds : ~ Writing(j)
    /\ \E t \in TestSizes :
        \E grown \in GrowableTrees(fs, churn[i].data_path, t) :
        \E r \in {Churn_train(churn[i], fs, t, grown)} :
            /\ churn' = [churn EXCEPT ![i] = r.self]
            /\ IF r.raised = "none"
               THEN /\ pc' = [pc EXCEPT ![i] = At("open", r.files[churn[i].model_path])]
                    /\ last' = last
               ELSE /\ pc' = pc
                    /\ last' = Call(i, "train", None, r)
    /\ UNCHANGED <<sales, fs, dumped, featureVars, pipelineVars, servingVars>>

\* train, line 178: open(self.model_path, 'wb')
TrainOpen(i) ==
    /\ pc[i].at = "open"
    /\ fs' = [fs EXCEPT ![churn[i].model_path] = Prefix(pc[i].bytes, 0)]
    /\ pc' = [pc EXCEPT ![i].at = "dump"]
    /\ UNCHANGED <<churn, sales, dumped, last, featureVars, pipelineVars, servingVars>>

\* train, line 179: pickle.dump(self.model, f), the buffer flushed once
TrainDump(i) ==
    /\ pc[i].at = "dump"
    /\ fs' = [fs EXCEPT ![churn[i].model_path] = Prefix(pc[i].bytes, 1)]
    /\ pc' = [pc EXCEPT ![i].at = "close"]
    /\ UNCHANGED <<churn, sales, dumped, last, featureVars, pipelineVars, servingVars>>

\* train, end of the with-block: the rest is flushed, the file closed, and
\* train returns.
TrainClose(i) ==
    /\ pc[i].at = "close"
    /\ fs' = [fs EXCEPT ![churn[i].model_path] = pc[i].bytes]
    /\ dumped' = [dumped EXCEPT ![churn[i].model_path] = churn[i]]
    /\ last' = Call(i, "train", None, Ret(churn[i], None, "none", None, None))
    /\ pc' = [pc EXCEPT ![i] = At("idle", None)]
    /\ UNCHANGED <<churn, sales, featureVars, pipelineVars, servingVars>>

\* load_model, lines 301-302: os.path.exists(self.model_path)
LoadExists(i) ==
    /\ pc[i].at = "idle"
    /\ IF fs[churn[i].model_path] = None
       THEN /\ last' = Call(i, "load_model", None, Churn_load_model(churn[i], fs))
            /\ pc' = pc
       ELSE /\ last' = last
            /\ pc' = [pc EXCEPT ![i].at = "read"]
    /\ UNCHANGED <<churn, sales, fs, dumped, featureVars, pipelineVars, servingVars>>

\* load_model, lines 304-309: the file opened and unpickled; on an error of
\* pickle.load nothing is assigned.
LoadRead(i) ==
    /\ pc[i].at = "read"
    /\ \E r \in {IF IsComplete(fs[churn[i].model_path])
                 THEN Churn_load_model(churn[i], fs)
                 ELSE Ret(churn[i], fs, PickleLoadError(fs[churn[i].model_path]),
                          None, None)} :
        /\ churn' = [churn EXCEPT ![i] = r.self]
        /\ last' = Call(i, "load_model", None, r)
    /\ pc' = [pc EXCEPT ![i] = At("idle", None)]
    /\ UNCHANGED <<sales, fs, dumped, featureVars, pipelineVars, servingVars>>

NextConcurrent ==
    \E i \in ChurnIds :
        \/ TrainCompute(i)
        \/ TrainOpen(i)
        \/ TrainDump(i)
        \/ TrainClose(i)
        \/ LoadExists(i)
        \/ LoadRead(i)

SpecConcurrent == InitConcurrent /\ [][NextConcurrent]_vars

\* C21 as claimed: whatever the interleaving of a train with another
\* caller's load_model on the same path, load_model either raises
\* FileNotFoundError or returns holding the model of the artifact a finished
\* train wrote.
C21_LoadNeverSeesPartialFile ==
    \A i \in ChurnIds :
        (last.who = i /\ last.op = "load_model") =>
            \/ last.raised = "FileNotFoundError"
            \/ /\ last.raised = "none"
               /\ dumped[ChurnModelPath] # None
               /\ churn[i].model = dumped[ChurnModelPath].model

(***************************************************************************)
(* SpecOverlap: batch runs of the pipeline that may overlap                *)
(***************************************************************************)
\* The processes that run the batch job.
Runners == {"job1", "job2"}

\* Raw files as the job finds them: customer 1 buying product 1 once, on one
\* of two days, and the same with transactions.csv lacking its quantity.
OverlapRawSets ==
    LET bought == {t \in LiteTransactionTables :
                      Len(t.rows) = 1 /\ t.rows[1].customer_id = 1}
    IN  RawInputs(CustomerTables, ProductTables,
                  bought \cup {DropColumn(t, "quantity") : t \in bought})

InitOverlap ==
    /\ pp = [r \in Runners |-> NewPreprocessor]
    /\ raw \in OverlapRawSets
    /\ processed = [sales_processed |-> None, customer_features |-> None]
    /\ last = NoPipelineCall
    /\ dumped = None
    /\ pc = [r \in Runners |-> "idle"]
    /\ cf_df = None /\ cf_out = None
    /\ churn = None /\ sales = None /\ fs = None
    /\ page = None

\* New raw files arrive.
NewRawData ==
    /\ raw' \in OverlapRawSets \ {raw}
    /\ UNCHANGED <<pp, processed, last, dumped, pc, featureVars, churn, sales, fs,
                   servingVars>>

\* run_pipeline, lines 133-135, in a fresh process: load_data,
\* preprocess_transactions and create_customer_features.  An exception ends
\* the run before save_data.
RunCompute(r) ==
    /\ pc[r] = "idle"
    /\ \E out \in {PP_run_pipeline(NewPreprocessor, raw, processed)} :
        /\ pp' = [pp EXCEPT ![r] = out.self]
        /\ IF out.raised = "none"
           THEN /\ pc' = [pc EXCEPT ![r] = "save_sales"]
                /\ last' = last
           ELSE /\ pc' = pc
                /\ last' = PipelineCall("run_pipeline", out)
    /\ UNCHANGED <<raw, processed, dumped, featureVars, churn, sales, fs, servingVars>>

\* save_data, lines 122-123: sales_processed.csv written.
SaveSales(r) ==
    /\ pc[r] = "save_sales"
    /\ processed' = [processed EXCEPT !.sales_processed =
                        PP_save_data(pp[r], processed).files.sales_processed]
    /\ pc' = [pc EXCEPT ![r] = "save_features"]
    /\ UNCHANGED <<pp, raw, last, dumped, featureVars, churn, sales, fs, servingVars>>

\* save_data, lines 127-128: customer_features.csv written; run_pipeline
\* returns.
SaveFeatures(r) ==
    /\ pc[r] = "save_features"
    /\ processed' = [processed EXCEPT !.customer_features =
                        PP_save_data(pp[r], processed).files.customer_features]
    /\ pc' = [pc EXCEPT ![r] = "idle"]
    /\ dumped' = pp[r]
    /\ last' = PipelineCall("run_pipeline", [raised |-> "none", names |-> None])
    /\ UNCHANGED <<pp, raw, featureVars, churn, sales, fs, servingVars>>

NextOverlap ==
    \/ NewRawData
    \/ \E r \in Runners :
        \/ RunCompute(r)
        \/ SaveSales(r)
        \/ SaveFeatures(r)

SpecOverlap == InitOverlap /\ [][NextOverlap]_vars

\* C30 as claimed: whenever no run is under way, the two processed files are
\* those of one run, the latest that completed (and there are none before a
\* run has completed).
C30_ProcessedFromLatestRun ==
    (\A r \in Runners : pc[r] = "idle") =>
        IF dumped = None
        THEN /\ processed.sales_processed = None
             /\ processed.customer_features = None
        ELSE /\ processed.sales_processed = SalesToCsv(dumped.sales_processed)
             /\ processed.customer_features = dumped.customer_features

====
